---------------------------- MODULE Spec2Model ----------------------------
(***************************************************************************)
(* Verification model of kapilthedaytrader/trend-scanner.                  *)
(*                                                                         *)
(*   Spec      structure.py  build_structure_pivots: bootstrap, the        *)
(*             one-pass HH/LL state machine, end-of-data handling and the  *)
(*             two post-processing passes, over valid bar series.          *)
(*   SpecAny   the same machine over series that may be malformed          *)
(*             (high < low, dates not increasing).                         *)
(*   SpecFrame analysis.py  candle_type and range_type called directly on  *)
(*             short indicator frames.                                     *)
(*   SpecPredict  analysis.py  predict_tomorrow: add_indicators,           *)
(*             classify_phase_simple, the 50SMA and bar-type flags, the    *)
(*             trend and range branches, the execution note.               *)
(*   SpecCalls both entry points called repeatedly, the locals of the      *)
(*             previous call left in place.                                *)
(*   SpecHint  analysis.py  reversal_candle_hint called on one-bar frames. *)
(*   SpecPass  structure.py  one call on series in which a bar may have no *)
(*             price (NaN), with weak fairness on the call's statements.   *)
(*   SpecLists structure.py  the two passes after the walk, on any raw     *)
(*             pivot list.                                                 *)
(*   SpecWorker  ibkr_worker.py  IBKRWorker: start() and stop() in the     *)
(*             caller's thread, _run in the worker thread.                 *)
(*                                                                         *)
(* Arithmetic is exact: rolling means are kept as window sums and decimal  *)
(* factors are cross-multiplied; binary floating-point rounding is not     *)
(* modelled.  The last ema9/ema20 entries are taken from the interval of   *)
(* the closes that bounds them.                                            *)
(*                                                                         *)
(* Prices are integers.  An optional value (Python None, pandas NaN) is    *)
(* NA == <<>>, an available one is Some(v) == <<v>>.  Bar indices are the  *)
(* code's 0-based positions; bar i is bars[i + 1].                         *)
(***************************************************************************)
EXTENDS Integers, Sequences, FiniteSets, TLC

\* ------------------------------------------------------------- bounds
\* Longest input series of the pivot engine.
MaxLen == 4
\* Prices (high, low, close, sma50, sma200) range over 1..MaxPrice.
MaxPrice == 2

Prices == 1..MaxPrice

NA == <<>>
Some(v) == <<v>>
Val(o) == o[1]
notna(o) == o # NA

VARIABLES
    bars,        \* df: the input series, a sequence of bar records
    pc,          \* position in build_structure_pivots
    state,       \* NEUTRAL / UP / UP_CONFIRM_TOPPING / DOWN / DOWN_CONFIRM_BOTTOMING
    i,           \* loop index of the walk (0-based)
    last_HL,     \* Optional[float]
    last_LH,     \* Optional[float]
    break_index, \* Optional[int]
    prev_high,   \* Optional[float]
    prev_low,    \* Optional[float]
    pending_HH,  \* Optional[Pivot]
    pending_LL,  \* Optional[Pivot]
    pivots,      \* raw pivot list
    cleaned,     \* after the same-kind collapse
    final,       \* the returned list
    prevFinal,   \* history: what the previous call returned, when it was given
                 \* the same series (NA otherwise)
    \* analysis.py
    df_in,       \* predict_tomorrow's argument: rows of open/high/low/close
    df_ind,      \* df = add_indicators(df_in): the columns atr14, sma50, sma200 added
    ema,         \* the last entries of the columns ema9 and ema20
    apc,         \* position in predict_tomorrow, or in a direct call of a helper
    phase,       \* classify_phase_simple's phase
    preasons,    \* classify_phase_simple's reasons
    reasons,     \* List[str]
    flags,       \* Dict[str, str]
    tomorrow,    \* tomorrow_bias
    call,        \* the function called, with its argument or the call's number
    ret,         \* what it returned
    prevResult,  \* history: what the previous call of predict_tomorrow returned,
                 \* when it was given the same series (NA otherwise)
    \* ibkr_worker.py
    _thread,     \* self._thread: "none", "alive" or "finished"
    _loop,       \* self._loop: "none", "open" or "closed"
    _ib,         \* self._ib: "none", "connected" or "disconnected"
    _ready,      \* self._ready, a threading.Event: set or not
    run_pc,      \* position of the worker thread in _run
    start_pc,    \* position of the caller in start()
    stopping,    \* loop.stop is scheduled on the loop
    nstart       \* number of start() calls so far

pivotVars == <<bars, pc, state, i, last_HL, last_LH, break_index, prev_high,
               prev_low, pending_HH, pending_LL, pivots, cleaned, final>>

analysisVars == <<df_in, df_ind, ema, apc, phase, preasons, reasons, flags,
                  tomorrow, call, ret, prevResult>>

workerVars == <<_thread, _loop, _ib, _ready, run_pc, start_pc, stopping, nstart>>

vars == <<pivotVars, prevFinal, analysisVars, workerVars>>

\* ------------------------------------------------------- data model
Pivot(idx, date, price, kind) ==
    [i |-> idx, date |-> date, price |-> price, kind |-> kind]

Row(df, k) == df[k + 1]

\* ------------------------------------------------- pure helpers

\* A missing price: float(row["high"]) of an empty cell is NaN. Every
\* comparison with NaN is false.
NaN == 0

Gt(a, b) == a # NaN /\ b # NaN /\ a > b
Lt(a, b) == a # NaN /\ b # NaN /\ a < b
Ge(a, b) == a # NaN /\ b # NaN /\ a >= b
Le(a, b) == a # NaN /\ b # NaN /\ a <= b

\* Every cell of the column is missing in df.iloc[lo : hi + 1].
AllMissing(df, col, lo, hi) == \A k \in lo..hi : Row(df, k)[col] = NaN

\* Mutant of idxmax: the last position of the maximum.
IdxMaxHighLast(df, lo, hi) ==
    CHOOSE j \in lo..hi :
        /\ Row(df, j).high # NaN
        /\ \A k \in lo..hi : ~Gt(Row(df, k).high, Row(df, j).high)
        /\ \A k \in (j + 1)..hi : ~Ge(Row(df, k).high, Row(df, j).high)

\* Series.idxmax() over df.iloc[lo : hi + 1]["high"]: the first position of the
\* maximum, missing cells skipped.
IdxMaxHigh(df, lo, hi) ==
    CHOOSE j \in lo..hi :
        /\ Row(df, j).high # NaN
        /\ \A k \in lo..hi : ~Gt(Row(df, k).high, Row(df, j).high)
        /\ \A k \in lo..(j - 1) : ~Ge(Row(df, k).high, Row(df, j).high)

\* Series.idxmin() over df.iloc[lo : hi + 1]["low"]: the first position of the
\* minimum, missing cells skipped.
IdxMinLow(df, lo, hi) ==
    CHOOSE j \in lo..hi :
        /\ Row(df, j).low # NaN
        /\ \A k \in lo..hi : ~Lt(Row(df, k).low, Row(df, j).low)
        /\ \A k \in lo..(j - 1) : ~Le(Row(df, k).low, Row(df, j).low)

Max0(a, b) == IF a >= b THEN a ELSE b

\* start = max(0, i - 2); window = df.iloc[start : i + 1]
WindowStart(k) == Max0(0, k - 2)

HHPivot(df, lo, hi) ==
    LET j == IdxMaxHigh(df, lo, hi)
    IN  Pivot(j, Row(df, j).date, Row(df, j).high, "HH")

LLPivot(df, lo, hi) ==
    LET j == IdxMinLow(df, lo, hi)
    IN  Pivot(j, Row(df, j).date, Row(df, j).low, "LL")

\* Mutant of _initial_trend: the availability of sma200 is not tested.
InitialTrendIgnoresSma200(df, k) ==
    LET row == Row(df, k)
    IN  IF notna(row.sma50)
        THEN IF Ge(row.close, Val(row.sma50)) THEN "UP" ELSE "DOWN"
        ELSE "NEUTRAL"

\* _initial_trend(df, i)
InitialTrend(df, k) ==
    LET row == Row(df, k)
    IN  IF notna(row.sma50) /\ notna(row.sma200)
        THEN IF Ge(row.close, Val(row.sma50)) /\ Val(row.sma50) >= Val(row.sma200)
             THEN "UP"
             ELSE IF Le(row.close, Val(row.sma50)) /\ Val(row.sma50) <= Val(row.sma200)
                  THEN "DOWN"
                  ELSE "NEUTRAL"
        ELSE "NEUTRAL"

\* for i in range(len(df)): state = _initial_trend(df, i); if state != "NEUTRAL": break
RECURSIVE BootstrapScan(_, _)
BootstrapScan(df, k) ==
    IF k >= Len(df) THEN "NEUTRAL"
    ELSE IF InitialTrend(df, k) # "NEUTRAL" THEN InitialTrend(df, k)
    ELSE BootstrapScan(df, k + 1)

BootstrapTrend(df) == BootstrapScan(df, 0)

\* Mutant of the look-ahead: a group holds two pivots at most.
GroupEndPairs(ps, j) ==
    IF j + 1 <= Len(ps) /\ ps[j + 1].kind = ps[j].kind THEN j + 1 ELSE j

\* The look-ahead group of the clean-up loop: the indices j..e of the maximal run
\* of pivots of pivots[j]'s kind that starts at j (1-based).
RECURSIVE GroupEnd(_, _)
GroupEnd(ps, j) ==
    IF j + 1 <= Len(ps) /\ ps[j + 1].kind = ps[j].kind THEN GroupEnd(ps, j + 1) ELSE j

\* Mutant of the group's choice: the group's first pivot.
BestOfFirst(ps, j, e) == ps[j]

\* max(group, key=price) / min(group, key=price): the first extreme element.
BestOf(ps, j, e) ==
    LET kind == ps[j].kind
        b == CHOOSE b \in j..e :
                 /\ \A k \in j..e : IF kind = "HH" THEN ps[k].price <= ps[b].price
                                    ELSE ps[k].price >= ps[b].price
                 /\ \A k \in j..(b - 1) : IF kind = "HH" THEN ps[k].price < ps[b].price
                                          ELSE ps[k].price > ps[b].price
    IN  ps[b]

\* The clean-up loop: one pivot per maximal same-kind run.
RECURSIVE CleanFrom(_, _)
CleanFrom(ps, j) ==
    IF j > Len(ps) THEN <<>>
    ELSE LET e == GroupEnd(ps, j)
         IN  <<BestOf(ps, j, e)>> \o CleanFrom(ps, e + 1)

CleanUp(ps) == CleanFrom(ps, 1)

\* One iteration of the final safety loop.
FinalStep(acc, p) ==
    IF acc = <<>> THEN <<p>>
    ELSE LET last == acc[Len(acc)]
         IN  IF last.kind # p.kind THEN Append(acc, p)
             ELSE IF (p.kind = "HH" /\ p.price > last.price)
                     \/ (p.kind = "LL" /\ p.price < last.price)
                  THEN [acc EXCEPT ![Len(acc)] = p]
                  ELSE acc

RECURSIVE FinalFrom(_, _, _)
FinalFrom(cs, j, acc) ==
    IF j > Len(cs) THEN acc ELSE FinalFrom(cs, j + 1, FinalStep(acc, cs[j]))

FinalPass(cs) == FinalFrom(cs, 1, <<>>)

\* ------------------------------------------------------- input series
\* The moving-average columns as the engine receives them, one profile per
\* series: sma50 is unavailable before bar k50 and s50 from there on, likewise
\* sma200 with k200 and s200 (k = MaxLen: never available).
MaProfile(k50, k200, s50, s200) ==
    [k50 |-> k50, k200 |-> k200, s50 |-> s50, s200 |-> s200]

MaProfiles ==
    {MaProfile(MaxLen, MaxLen, 1, 1),       \* no moving average at all
     MaProfile(0, MaxLen, 1, 1),            \* sma50 only
     MaProfile(MaxLen, 0, 1, 1)}            \* sma200 only
    \cup {MaProfile(k, k, s50, s200) :
            k \in {0, 1}, s50 \in {1, MaxPrice}, s200 \in {1, MaxPrice}}

MaCol(k, from, s) == IF k < from THEN NA ELSE Some(s)

\* (high, low) pairs with low <= high, or any pair when malformed bars are allowed.
HLPairs(anyShape) ==
    {hl \in Prices \X Prices : anyShape \/ hl[2] <= hl[1]}

\* Session dates as day numbers.
AscendingDates == [k \in 1..MaxLen |-> k]
RepeatedDates == [k \in 1..MaxLen |-> 1]

DateColumns(anyShape) ==
    {AscendingDates} \cup (IF anyShape THEN {RepeatedDates} ELSE {})

SeriesOf(hl, ma, dates) ==
    [k \in 1..Len(hl) |->
        [high   |-> hl[k][1],
         low    |-> hl[k][2],
         close  |-> hl[k][1],
         sma50  |-> MaCol(k - 1, ma.k50, ma.s50),
         sma200 |-> MaCol(k - 1, ma.k200, ma.s200),
         date   |-> dates[k]]]

\* bars is one of the bounded input series.
InputSeries(anyShape) ==
    \E n \in 0..MaxLen :
        \E hl \in [1..n -> HLPairs(anyShape)] :
            \E ma \in MaProfiles :
                \E dates \in DateColumns(anyShape) :
                    bars = SeriesOf(hl, ma, dates)

\* IBKRWorker.__init__: no thread, no loop, no IB, the event not set.
WorkerNew ==
    /\ _thread = "none"
    /\ _loop = "none"
    /\ _ib = "none"
    /\ _ready = FALSE
    /\ run_pc = "none"
    /\ start_pc = "idle"
    /\ stopping = FALSE
    /\ nstart = 0

InitLocals ==
    /\ state = "NEUTRAL"
    /\ i = 0
    /\ last_HL = NA
    /\ last_LH = NA
    /\ break_index = NA
    /\ prev_high = NA
    /\ prev_low = NA
    /\ pending_HH = NA
    /\ pending_LL = NA
    /\ pivots = <<>>
    /\ cleaned = <<>>
    /\ final = <<>>
    /\ prevFinal = NA

\* analysis.py is not running.
AnalysisIdle ==
    /\ df_in = <<>>
    /\ df_ind = <<>>
    /\ ema = NA
    /\ apc = "idle"
    /\ phase = ""
    /\ preasons = <<>>
    /\ reasons = <<>>
    /\ flags = <<>>
    /\ tomorrow = ""
    /\ call = NA
    /\ ret = NA
    /\ prevResult = NA

Init ==
    /\ InputSeries(FALSE)
    /\ pc = "entry"
    /\ InitLocals
    /\ AnalysisIdle
    /\ WorkerNew

InitAny ==
    /\ InputSeries(TRUE)
    /\ pc = "entry"
    /\ InitLocals
    /\ AnalysisIdle
    /\ WorkerNew

\* ------------------------------------------------------------ actions
walkVars == <<bars, cleaned, final, prevFinal>>

\* if df.empty: return []
ReturnEmpty ==
    /\ pc = "entry"
    /\ Len(bars) = 0
    /\ pc' = "done"
    /\ final' = <<>>
    /\ UNCHANGED <<bars, state, i, last_HL, last_LH, break_index, prev_high,
                   prev_low, pending_HH, pending_LL, pivots, cleaned, prevFinal>>
    /\ UNCHANGED <<analysisVars, workerVars>>

\* Mutant of the function's prologue: pivots is not started empty, it keeps
\* what an earlier call left (a list shared between calls).
BootstrapKeepsPivots ==
    /\ pc = "entry"
    /\ Len(bars) > 0
    /\ state' = BootstrapTrend(bars)
    /\ IF state' = "NEUTRAL"
       THEN /\ pc' = "done"
            /\ final' = <<>>
            /\ UNCHANGED <<i, last_HL, last_LH, break_index, prev_high,
                           prev_low, pending_HH, pending_LL>>
       ELSE /\ pc' = "walk"
            /\ last_HL' = NA
            /\ last_LH' = NA
            /\ break_index' = NA
            /\ prev_high' = NA
            /\ prev_low' = NA
            /\ pending_HH' = NA
            /\ pending_LL' = NA
            /\ i' = 0
            /\ UNCHANGED final
    /\ UNCHANGED <<bars, cleaned, prevFinal, pivots>>
    /\ UNCHANGED <<analysisVars, workerVars>>

\* Mutant of the prologue: the walk starts at the bar the scan stopped on.
BootstrapStartsAtTrendBar ==
    /\ pc = "entry"
    /\ Len(bars) > 0
    /\ pivots' = <<>>
    /\ state' = BootstrapTrend(bars)
    /\ IF state' = "NEUTRAL"
       THEN /\ pc' = "done"
            /\ final' = <<>>
            /\ UNCHANGED <<i, last_HL, last_LH, break_index, prev_high,
                           prev_low, pending_HH, pending_LL>>
       ELSE /\ pc' = "walk"
            /\ last_HL' = NA
            /\ last_LH' = NA
            /\ break_index' = NA
            /\ prev_high' = NA
            /\ prev_low' = NA
            /\ pending_HH' = NA
            /\ pending_LL' = NA
            /\ i' = CHOOSE k \in 0..(Len(bars) - 1) :
                       /\ InitialTrend(bars, k) # "NEUTRAL"
                       /\ \A j \in 0..(k - 1) : InitialTrend(bars, j) = "NEUTRAL"
            /\ UNCHANGED final
    /\ UNCHANGED <<bars, cleaned, prevFinal>>
    /\ UNCHANGED <<analysisVars, workerVars>>

\* pivots = []; bootstrap trend; if state == "NEUTRAL": return [];
\* the state variables set to None; i = 0
Bootstrap ==
    /\ pc = "entry"
    /\ Len(bars) > 0
    /\ pivots' = <<>>
    /\ state' = BootstrapTrend(bars)
    /\ IF state' = "NEUTRAL"
       THEN /\ pc' = "done"
            /\ final' = <<>>
            /\ UNCHANGED <<i, last_HL, last_LH, break_index, prev_high,
                           prev_low, pending_HH, pending_LL>>
       ELSE /\ pc' = "walk"
            /\ last_HL' = NA
            /\ last_LH' = NA
            /\ break_index' = NA
            /\ prev_high' = NA
            /\ prev_low' = NA
            /\ pending_HH' = NA
            /\ pending_LL' = NA
            /\ i' = 0
            /\ UNCHANGED final
    /\ UNCHANGED <<bars, cleaned, prevFinal>>
    /\ UNCHANGED <<analysisVars, workerVars>>

InWalk == pc = "walk" /\ i < Len(bars)
high == Row(bars, i).high
low == Row(bars, i).low

\* UP: last_HL is None
UpInit ==
    /\ InWalk /\ state = "UP" /\ last_HL = NA
    /\ last_HL' = Some(low)
    /\ i' = i + 1
    /\ UNCHANGED <<pc, state, last_LH, break_index, prev_high, prev_low,
                   pending_HH, pending_LL, pivots>>
    /\ UNCHANGED walkVars
    /\ UNCHANGED <<analysisVars, workerVars>>

\* Mutant of the UP tracking step: last_HL is not raised.
UpTrackKeepsLevel ==
    /\ InWalk /\ state = "UP" /\ notna(last_HL)
    /\ Gt(low, Val(last_HL))
    /\ i' = i + 1
    /\ UNCHANGED <<pc, state, last_HL, last_LH, break_index, prev_high, prev_low,
                   pending_HH, pending_LL, pivots>>
    /\ UNCHANGED walkVars
    /\ UNCHANGED <<analysisVars, workerVars>>

\* UP: low > last_HL
UpTrack ==
    /\ InWalk /\ state = "UP" /\ notna(last_HL)
    /\ Gt(low, Val(last_HL))
    /\ last_HL' = Some(low)
    /\ i' = i + 1
    /\ UNCHANGED <<pc, state, last_LH, break_index, prev_high, prev_low,
                   pending_HH, pending_LL, pivots>>
    /\ UNCHANGED walkVars
    /\ UNCHANGED <<analysisVars, workerVars>>

\* UP: low <= last_HL, break detected
UpBreak ==
    /\ InWalk /\ state = "UP" /\ notna(last_HL)
    /\ ~Gt(low, Val(last_HL))
    /\ Le(low, Val(last_HL))
    /\ break_index' = Some(i)
    /\ pending_HH' = Some(HHPivot(bars, WindowStart(i), i))
    /\ state' = "UP_CONFIRM_TOPPING"
    /\ prev_high' = Some(high)
    /\ i' = i + 1
    /\ UNCHANGED <<pc, last_HL, last_LH, prev_low, pending_LL, pivots>>
    /\ UNCHANGED walkVars
    /\ UNCHANGED <<analysisVars, workerVars>>

\* UP_CONFIRM_TOPPING: high < prev_high, lower high confirmed
ToppingConfirm ==
    /\ InWalk /\ state = "UP_CONFIRM_TOPPING"
    /\ notna(prev_high) /\ Lt(high, Val(prev_high))
    /\ pivots' = (IF notna(pending_HH) THEN Append(pivots, Val(pending_HH)) ELSE pivots)
                    \o <<LLPivot(bars, WindowStart(i), i)>>
    /\ state' = "DOWN"
    /\ last_LH' = Some(high)
    /\ last_HL' = NA
    /\ pending_HH' = NA
    /\ pending_LL' = NA
    /\ prev_high' = NA
    /\ prev_low' = NA
    /\ break_index' = NA
    /\ i' = i + 1
    /\ UNCHANGED pc
    /\ UNCHANGED walkVars
    /\ UNCHANGED <<analysisVars, workerVars>>

\* Mutant of the waiting step: prev_high stays the break bar's high.
ToppingWaitKeepsHigh ==
    /\ InWalk /\ state = "UP_CONFIRM_TOPPING"
    /\ IF notna(prev_high) THEN ~Lt(high, Val(prev_high)) ELSE TRUE
    /\ i' = i + 1
    /\ UNCHANGED <<pc, state, last_HL, last_LH, break_index, prev_high, prev_low,
                   pending_HH, pending_LL, pivots>>
    /\ UNCHANGED walkVars
    /\ UNCHANGED <<analysisVars, workerVars>>

\* Mutant of the waiting step: a higher high replaces the pending HH.
ToppingWaitTracksHigh ==
    /\ InWalk /\ state = "UP_CONFIRM_TOPPING"
    /\ IF notna(prev_high) THEN ~Lt(high, Val(prev_high)) ELSE TRUE
    /\ prev_high' = Some(high)
    /\ pending_HH' = IF notna(pending_HH) /\ Gt(high, Val(pending_HH).price)
                     THEN Some(Pivot(i, Row(bars, i).date, high, "HH"))
                     ELSE pending_HH
    /\ i' = i + 1
    /\ UNCHANGED <<pc, state, last_HL, last_LH, break_index, prev_low,
                   pending_LL, pivots>>
    /\ UNCHANGED walkVars
    /\ UNCHANGED <<analysisVars, workerVars>>

\* UP_CONFIRM_TOPPING: equal or higher high (or no prev_high yet), keep waiting
ToppingWait ==
    /\ InWalk /\ state = "UP_CONFIRM_TOPPING"
    /\ IF notna(prev_high) THEN ~Lt(high, Val(prev_high)) ELSE TRUE
    /\ prev_high' = Some(high)
    /\ i' = i + 1
    /\ UNCHANGED <<pc, state, last_HL, last_LH, break_index, prev_low,
                   pending_HH, pending_LL, pivots>>
    /\ UNCHANGED walkVars
    /\ UNCHANGED <<analysisVars, workerVars>>

\* DOWN: last_LH is None
DownInit ==
    /\ InWalk /\ state = "DOWN" /\ last_LH = NA
    /\ last_LH' = Some(high)
    /\ i' = i + 1
    /\ UNCHANGED <<pc, state, last_HL, break_index, prev_high, prev_low,
                   pending_HH, pending_LL, pivots>>
    /\ UNCHANGED walkVars
    /\ UNCHANGED <<analysisVars, workerVars>>

\* Mutant of the DOWN tracking step: last_LH is not lowered.
DownTrackKeepsLevel ==
    /\ InWalk /\ state = "DOWN" /\ notna(last_LH)
    /\ Lt(high, Val(last_LH))
    /\ i' = i + 1
    /\ UNCHANGED <<pc, state, last_HL, last_LH, break_index, prev_high, prev_low,
                   pending_HH, pending_LL, pivots>>
    /\ UNCHANGED walkVars
    /\ UNCHANGED <<analysisVars, workerVars>>

\* DOWN: high < last_LH
DownTrack ==
    /\ InWalk /\ state = "DOWN" /\ notna(last_LH)
    /\ Lt(high, Val(last_LH))
    /\ last_LH' = Some(high)
    /\ i' = i + 1
    /\ UNCHANGED <<pc, state, last_HL, break_index, prev_high, prev_low,
                   pending_HH, pending_LL, pivots>>
    /\ UNCHANGED walkVars
    /\ UNCHANGED <<analysisVars, workerVars>>

\* DOWN: high >= last_LH, break detected
DownBreak ==
    /\ InWalk /\ state = "DOWN" /\ notna(last_LH)
    /\ ~Lt(high, Val(last_LH))
    /\ Ge(high, Val(last_LH))
    /\ break_index' = Some(i)
    /\ pending_LL' = Some(LLPivot(bars, WindowStart(i), i))
    /\ state' = "DOWN_CONFIRM_BOTTOMING"
    /\ prev_low' = Some(low)
    /\ i' = i + 1
    /\ UNCHANGED <<pc, last_HL, last_LH, prev_high, pending_HH, pivots>>
    /\ UNCHANGED walkVars
    /\ UNCHANGED <<analysisVars, workerVars>>

\* DOWN_CONFIRM_BOTTOMING: low > prev_low, higher low confirmed
BottomingConfirm ==
    /\ InWalk /\ state = "DOWN_CONFIRM_BOTTOMING"
    /\ notna(prev_low) /\ Gt(low, Val(prev_low))
    /\ pivots' = (IF notna(pending_LL) THEN Append(pivots, Val(pending_LL)) ELSE pivots)
                    \o <<HHPivot(bars, WindowStart(i), i)>>
    /\ state' = "UP"
    /\ last_HL' = Some(low)
    /\ last_LH' = NA
    /\ pending_HH' = NA
    /\ pending_LL' = NA
    /\ prev_high' = NA
    /\ prev_low' = NA
    /\ break_index' = NA
    /\ i' = i + 1
    /\ UNCHANGED pc
    /\ UNCHANGED walkVars
    /\ UNCHANGED <<analysisVars, workerVars>>

\* DOWN_CONFIRM_BOTTOMING: equal or lower low (or no prev_low yet), keep waiting
BottomingWait ==
    /\ InWalk /\ state = "DOWN_CONFIRM_BOTTOMING"
    /\ IF notna(prev_low) THEN ~Gt(low, Val(prev_low)) ELSE TRUE
    /\ prev_low' = Some(low)
    /\ i' = i + 1
    /\ UNCHANGED <<pc, state, last_HL, last_LH, break_index, prev_high,
                   pending_HH, pending_LL, pivots>>
    /\ UNCHANGED walkVars
    /\ UNCHANGED <<analysisVars, workerVars>>

\* The pivots appended after the loop for a pending, unconfirmed pivot.
EndPivots(df, st, pHH, pLL) ==
    LET n == Len(df)
    IN  IF st = "UP_CONFIRM_TOPPING" /\ notna(pHH)
        THEN <<Val(pHH)>> \o (IF n >= 3 THEN <<LLPivot(df, n - 3, n - 1)>> ELSE <<>>)
        ELSE IF st = "DOWN_CONFIRM_BOTTOMING" /\ notna(pLL)
        THEN <<Val(pLL)>> \o (IF n >= 3 THEN <<HHPivot(df, n - 3, n - 1)>> ELSE <<>>)
        ELSE <<>>

\* The last three bars hold no price for the counterpart: idxmin / idxmax of
\* an all-missing window raises, or returns NaN and get_loc raises.
EndRaises(df, st, pHH, pLL) ==
    LET n == Len(df)
    IN  /\ n >= 3
        /\ IF st = "UP_CONFIRM_TOPPING" /\ notna(pHH)
           THEN AllMissing(df, "low", n - 3, n - 1)
           ELSE IF st = "DOWN_CONFIRM_BOTTOMING" /\ notna(pLL)
           THEN AllMissing(df, "high", n - 3, n - 1)
           ELSE FALSE

\* END OF DATA: handle pending pivots that weren't confirmed
EndOfData ==
    /\ pc = "walk" /\ i >= Len(bars)
    /\ IF EndRaises(bars, state, pending_HH, pending_LL)
       THEN /\ pivots' = Append(pivots, IF state = "UP_CONFIRM_TOPPING"
                                        THEN Val(pending_HH) ELSE Val(pending_LL))
            /\ UNCHANGED <<pending_HH, pending_LL>>
            /\ pc' = "raised"
       ELSE /\ pivots' = pivots \o EndPivots(bars, state, pending_HH, pending_LL)
            /\ pending_LL' =
                 IF state = "UP_CONFIRM_TOPPING" /\ notna(pending_HH) /\ Len(bars) >= 3
                 THEN Some(LLPivot(bars, Len(bars) - 3, Len(bars) - 1))
                 ELSE pending_LL
            /\ pending_HH' =
                 IF state = "DOWN_CONFIRM_BOTTOMING" /\ notna(pending_LL) /\ Len(bars) >= 3
                 THEN Some(HHPivot(bars, Len(bars) - 3, Len(bars) - 1))
                 ELSE pending_HH
            /\ pc' = "cleanup"
    /\ UNCHANGED <<bars, state, i, last_HL, last_LH, break_index, prev_high,
                   prev_low, cleaned, final, prevFinal>>
    /\ UNCHANGED <<analysisVars, workerVars>>

\* Clean up consecutive same-kind pivots
CleanUpPass ==
    /\ pc = "cleanup"
    /\ cleaned' = CleanUp(pivots)
    /\ pc' = "final"
    /\ UNCHANGED <<bars, state, i, last_HL, last_LH, break_index, prev_high,
                   prev_low, pending_HH, pending_LL, pivots, final, prevFinal>>
    /\ UNCHANGED <<analysisVars, workerVars>>

\* Mutant of the return: the raw list is returned, not the post-processed one.
ReturnRaw ==
    /\ pc = "final"
    /\ final' = pivots
    /\ pc' = "done"
    /\ UNCHANGED <<bars, state, i, last_HL, last_LH, break_index, prev_high,
                   prev_low, pending_HH, pending_LL, pivots, cleaned, prevFinal>>
    /\ UNCHANGED <<analysisVars, workerVars>>

\* Final safety check and return final
ReturnFinal ==
    /\ pc = "final"
    /\ final' = FinalPass(cleaned)
    /\ pc' = "done"
    /\ UNCHANGED <<bars, state, i, last_HL, last_LH, break_index, prev_high,
                   prev_low, pending_HH, pending_LL, pivots, cleaned, prevFinal>>
    /\ UNCHANGED <<analysisVars, workerVars>>

\* The caller calls again: on the same series (render.py draws a chart per
\* request) or on the series without its last bar.  Nothing but df is passed.
CallAgain ==
    /\ pc = "done"
    /\ \/ /\ bars' = bars
          /\ prevFinal' = Some(final)
       \/ /\ Len(bars) > 0
          /\ bars' = SubSeq(bars, 1, Len(bars) - 1)
          /\ prevFinal' = NA
    /\ pc' = "entry"
    /\ UNCHANGED <<state, i, last_HL, last_LH, break_index, prev_high,
                   prev_low, pending_HH, pending_LL, pivots, cleaned, final>>
    /\ UNCHANGED <<analysisVars, workerVars>>

Next ==
    \/ ReturnEmpty
    \/ Bootstrap
    \/ UpInit
    \/ UpTrack
    \/ UpBreak
    \/ ToppingConfirm
    \/ ToppingWait
    \/ DownInit
    \/ DownTrack
    \/ DownBreak
    \/ BottomingConfirm
    \/ BottomingWait
    \/ EndOfData
    \/ CleanUpPass
    \/ ReturnFinal
    \/ CallAgain

Spec == Init /\ [][Next]_vars

SpecAny == InitAny /\ [][Next]_vars

\* The pivot engine on series with one more price level, every one of them
\* bootstrapped on its first bar: sma50 = sma200 at the lowest price (UP) or
\* at the highest (DOWN).
WidePrices == 1..(MaxPrice + 1)
WidePairs == {hl \in WidePrices \X WidePrices : hl[2] <= hl[1]}

InitWide ==
    /\ \E n \in 0..MaxLen :
         \E hl \in [1..n -> WidePairs] :
           \E s \in {1, MaxPrice + 1} :
             bars = SeriesOf(hl, MaProfile(0, 0, s, s), AscendingDates)
    /\ pc = "entry"
    /\ InitLocals
    /\ AnalysisIdle
    /\ WorkerNew

SpecWide == InitWide /\ [][Next]_vars

\* Mutant of the loop's last line: the index is left where it was.
NoBranchStalls ==
    /\ InWalk
    /\ IF state = "UP"
       THEN notna(last_HL) /\ ~Gt(low, Val(last_HL)) /\ ~Le(low, Val(last_HL))
       ELSE IF state = "DOWN"
       THEN notna(last_LH) /\ ~Lt(high, Val(last_LH)) /\ ~Ge(high, Val(last_LH))
       ELSE state \notin {"UP_CONFIRM_TOPPING", "DOWN_CONFIRM_BOTTOMING"}
    /\ i' = i
    /\ UNCHANGED <<pc, state, last_HL, last_LH, break_index, prev_high, prev_low,
                   pending_HH, pending_LL, pivots>>
    /\ UNCHANGED walkVars
    /\ UNCHANGED <<analysisVars, workerVars>>

\* The last line of the loop body (structure.py 246): no branch of the UP or
\* DOWN block took the bar, because a comparison with a missing price is
\* false either way; i += 1.
NoBranch ==
    /\ InWalk
    /\ IF state = "UP"
       THEN notna(last_HL) /\ ~Gt(low, Val(last_HL)) /\ ~Le(low, Val(last_HL))
       ELSE IF state = "DOWN"
       THEN notna(last_LH) /\ ~Lt(high, Val(last_LH)) /\ ~Ge(high, Val(last_LH))
       ELSE state \notin {"UP_CONFIRM_TOPPING", "DOWN_CONFIRM_BOTTOMING"}
    /\ i' = i + 1
    /\ UNCHANGED <<pc, state, last_HL, last_LH, break_index, prev_high, prev_low,
                   pending_HH, pending_LL, pivots>>
    /\ UNCHANGED walkVars
    /\ UNCHANGED <<analysisVars, workerVars>>

\* Series with gaps: a bar is a (high, low) pair or has no price at all.
GapPairs == HLPairs(FALSE) \cup {<<NaN, NaN>>}

InitGaps ==
    /\ \E n \in 0..MaxLen :
         \E hl \in [1..n -> GapPairs] :
           \E ma \in {MaProfile(0, 0, 1, 1), MaProfile(1, 1, MaxPrice, MaxPrice)} :
             bars = SeriesOf(hl, ma, AscendingDates)
    /\ pc = "entry"
    /\ InitLocals
    /\ AnalysisIdle
    /\ WorkerNew

\* One call of build_structure_pivots, statement after statement.
NextPass ==
    \/ ReturnEmpty
    \/ Bootstrap
    \/ UpInit
    \/ UpTrack
    \/ UpBreak
    \/ ToppingConfirm
    \/ ToppingWait
    \/ DownInit
    \/ DownTrack
    \/ DownBreak
    \/ BottomingConfirm
    \/ BottomingWait
    \/ NoBranch
    \/ EndOfData
    \/ CleanUpPass
    \/ ReturnFinal

\* The interpreter keeps executing the call: a statement that can run does run.
SpecPass == InitGaps /\ [][NextPass]_vars /\ WF_vars(NextPass)

\* =========================================================== analysis.py
\* The window lengths and default arguments of analysis.py.
AtrWindow == 14
Sma50Window == 50
Sma200Window == 200
Lookback == 20
RangeLookback == 15
MinPrior == 10
PrevWindow == 16

\* Arithmetic is exact: a rolling mean over w rows is kept as the sum of the w
\* values, and a comparison with a decimal factor is cross-multiplied, e.g.
\* rng >= 1.5 * atr14 is 2 * AtrWindow * rng >= 3 * (atr14's sum).

RECURSIVE SumOver(_, _, _)
SumOver(col, lo, hi) == IF lo > hi THEN 0 ELSE col[hi] + SumOver(col, lo, hi - 1)

\* Series.rolling(window).mean() at row k (1-based), as the window's sum:
\* unavailable while fewer than `window` rows exist.
Rolling(col, k, window) ==
    IF k < window THEN NA ELSE Some(SumOver(col, k - window + 1, k))

\* add_indicators, but for the ema columns
AddIndicators(raw) ==
    LET closes == [k \in 1..Len(raw) |-> raw[k].close]
        ranges == [k \in 1..Len(raw) |-> raw[k].high - raw[k].low]
    IN  [k \in 1..Len(raw) |->
            [open   |-> raw[k].open,
             high   |-> raw[k].high,
             low    |-> raw[k].low,
             close  |-> raw[k].close,
             sma50  |-> Rolling(closes, k, Sma50Window),
             sma200 |-> Rolling(closes, k, Sma200Window),
             atr14  |-> Rolling(ranges, k, AtrWindow)]]

\* Series.max() / Series.min() of a column over rows lo..hi (1-based, lo <= hi).
RECURSIVE MaxHigh(_, _, _)
MaxHigh(d, lo, hi) ==
    IF lo = hi THEN d[lo].high
    ELSE LET m == MaxHigh(d, lo, hi - 1) IN IF d[hi].high > m THEN d[hi].high ELSE m

RECURSIVE MinLow(_, _, _)
MinLow(d, lo, hi) ==
    IF lo = hi THEN d[lo].low
    ELSE LET m == MinLow(d, lo, hi - 1) IN IF d[hi].low < m THEN d[hi].low ELSE m

Abs(x) == IF x < 0 THEN 0 - x ELSE x

\* Mutant of candle_type: the outside test comes before the inside test.
CandleTypeOutsideFirst(d, idx) ==
    IF idx < 1 THEN "N/A"
    ELSE LET h == Row(d, idx).high
             l == Row(d, idx).low
             ph == Row(d, idx - 1).high
             pl == Row(d, idx - 1).low
             atr == Row(d, idx).atr14
             long_bar == IF notna(atr) /\ Val(atr) > 0
                         THEN 2 * AtrWindow * (h - l) >= 3 * Val(atr)
                         ELSE FALSE
         IN  IF (h >= ph) /\ (l <= pl) THEN "OutsideBar"
             ELSE IF (h <= ph) /\ (l >= pl) THEN "InsideBar"
             ELSE IF long_bar THEN "LongBar"
             ELSE "Normal"

\* candle_type(df, i)
CandleType(d, idx) ==
    IF idx < 1 THEN "N/A"
    ELSE LET h == Row(d, idx).high
             l == Row(d, idx).low
             ph == Row(d, idx - 1).high
             pl == Row(d, idx - 1).low
             inside == (h <= ph) /\ (l >= pl)
             outside == (h >= ph) /\ (l <= pl)
             rng == h - l
             atr == Row(d, idx).atr14
             long_bar == IF notna(atr) /\ Val(atr) > 0
                         THEN 2 * AtrWindow * rng >= 3 * Val(atr)
                         ELSE FALSE
         IN  IF inside THEN "InsideBar"
             ELSE IF outside THEN "OutsideBar"
             ELSE IF long_bar THEN "LongBar"
             ELSE "Normal"

\* Mutant of range_type: a zero atr14 is not set apart.
RangeTypeZeroAtr(d, lookback) ==
    LET n == Len(d)
        from == Max0(1, n - lookback + 1)
        hi == MaxHigh(d, from, n)
        lo == MinLow(d, from, n)
        rng == hi - lo
        atr == d[n].atr14
    IN  IF atr = NA
        THEN [typ |-> "Unknown",
              info |-> [range_high |-> hi, range_low |-> lo, range |-> rng, atr14 |-> NA]]
        ELSE [typ |-> IF 5 * AtrWindow * rng <= 6 * Val(atr) THEN "Tight" ELSE "Wide",
              info |-> [range_high |-> hi, range_low |-> lo, range |-> rng, atr14 |-> atr]]

\* Mutant of range_type: the Tight boundary is exclusive.
RangeTypeStrict(d, lookback) ==
    LET n == Len(d)
        from == Max0(1, n - lookback + 1)
        hi == MaxHigh(d, from, n)
        lo == MinLow(d, from, n)
        rng == hi - lo
        atr == d[n].atr14
    IN  IF atr = NA \/ Val(atr) = 0
        THEN [typ |-> "Unknown",
              info |-> [range_high |-> hi, range_low |-> lo, range |-> rng, atr14 |-> NA]]
        ELSE [typ |-> IF 5 * AtrWindow * rng < 6 * Val(atr) THEN "Tight" ELSE "Wide",
              info |-> [range_high |-> hi, range_low |-> lo, range |-> rng, atr14 |-> atr]]

\* range_type(df, lookback) on a frame of at least one row; info's atr14 is NA
\* where the code's dictionary has no "atr14" key.
RangeType(d, lookback) ==
    LET n == Len(d)
        from == Max0(1, n - lookback + 1)
        hi == MaxHigh(d, from, n)
        lo == MinLow(d, from, n)
        rng == hi - lo
        atr == d[n].atr14
    IN  IF atr = NA \/ Val(atr) = 0
        THEN [typ |-> "Unknown",
              info |-> [range_high |-> hi, range_low |-> lo, range |-> rng, atr14 |-> NA]]
        ELSE [typ |-> IF 5 * AtrWindow * rng <= 6 * Val(atr) THEN "Tight" ELSE "Wide",
              info |-> [range_high |-> hi, range_low |-> lo, range |-> rng, atr14 |-> atr]]

\* ------------------------------------------------ classify_phase_simple
\* The sign of np.polyfit(np.arange(L), closes, 1)[0] over rows lo..hi: the
\* least-squares slope is (L * Sxy - Sx * Sy) / (L * Sxx - Sx * Sx), whose
\* denominator is positive for L >= 2.
\* Sxy: row k of lo..hi has x = k - lo
RECURSIVE SumXY(_, _, _)
SumXY(d, lo, hi) ==
    IF lo > hi THEN 0 ELSE (hi - lo) * d[hi].close + SumXY(d, lo, hi - 1)

RECURSIVE SumY(_, _, _)
SumY(d, lo, hi) == IF lo > hi THEN 0 ELSE d[hi].close + SumY(d, lo, hi - 1)

SlopeSign(d, lo, hi) ==
    LET L == hi - lo + 1
        sx == (L * (L - 1)) \div 2
        num == L * SumXY(d, lo, hi) - sx * SumY(d, lo, hi)
    IN  IF num > 0 THEN 1 ELSE IF num < 0 THEN -1 ELSE 0

\* np.sum(col[1:] > col[:-1]) and np.sum(col[1:] < col[:-1]) over rows lo..hi
Rises(col, lo, hi) == Cardinality({k \in (lo + 1)..hi : col[k] > col[k - 1]})
Falls(col, lo, hi) == Cardinality({k \in (lo + 1)..hi : col[k] < col[k - 1]})

\* Mutant of the Advancing test: the count comparison is reversed.
IsAdvancingReversed(slope, hh, hl, lh, ll, above_ema20) ==
    slope > 0 /\ (hh + hl) < (lh + ll) /\ above_ema20

IsAdvancing(slope, hh, hl, lh, ll, above_ema20) ==
    slope > 0 /\ (hh + hl) > (lh + ll) /\ above_ema20

IsDeclining(slope, hh, hl, lh, ll, below_ema20) ==
    slope < 0 /\ (lh + ll) > (hh + hl) /\ below_ema20

\* Mutant of classify_phase_simple: any prior bar is enough for the prior slope.
ClassifyWindowAnyPrior(d, em, lookback) ==
    LET n == Len(d)
        lo == n - lookback + 1
        slope == SlopeSign(d, lo, n)
        above_ema20 == d[n].close > Val(em).ema20
        below_ema20 == d[n].close < Val(em).ema20
        highs == [k \in 1..n |-> d[k].high]
        lows == [k \in 1..n |-> d[k].low]
        hh == Rises(highs, lo, n)
        hl == Rises(lows, lo, n)
        lh == Falls(highs, lo, n)
        ll == Falls(lows, lo, n)
        plo == Max0(1, n - 2 * lookback + 1)
        phi == n - lookback
        pslope == IF phi - plo + 1 >= 1 THEN SlopeSign(d, plo, phi) ELSE 0
    IN  IF IsAdvancing(slope, hh, hl, lh, ll, above_ema20)
        THEN [phase |-> "Advancing", reasons |-> <<"Close trend up and above EMA20">>]
        ELSE IF IsDeclining(slope, hh, hl, lh, ll, below_ema20)
        THEN [phase |-> "Declining", reasons |-> <<"Close trend down and below EMA20">>]
        ELSE IF pslope > 0
        THEN [phase |-> "ToppingRange",
              reasons |-> <<"Stalling after uptrend -> topping/range">>]
        ELSE IF pslope < 0
        THEN [phase |-> "BottomingRange",
              reasons |-> <<"Stalling after downtrend -> bottoming/range">>]
        ELSE [phase |-> "Range", reasons |-> <<"Choppy/range-like structure">>]

\* classify_phase_simple once the series is long enough
ClassifyWindow(d, em, lookback) ==
    LET n == Len(d)
        lo == n - lookback + 1
        slope == SlopeSign(d, lo, n)
        above_ema20 == d[n].close > Val(em).ema20
        below_ema20 == d[n].close < Val(em).ema20
        highs == [k \in 1..n |-> d[k].high]
        lows == [k \in 1..n |-> d[k].low]
        hh == Rises(highs, lo, n)
        hl == Rises(lows, lo, n)
        lh == Falls(highs, lo, n)
        ll == Falls(lows, lo, n)
        plo == Max0(1, n - 2 * lookback + 1)
        phi == n - lookback
        pslope == IF phi - plo + 1 >= MinPrior THEN SlopeSign(d, plo, phi) ELSE 0
    IN  IF IsAdvancing(slope, hh, hl, lh, ll, above_ema20)
        THEN [phase |-> "Advancing", reasons |-> <<"Close trend up and above EMA20">>]
        ELSE IF IsDeclining(slope, hh, hl, lh, ll, below_ema20)
        THEN [phase |-> "Declining", reasons |-> <<"Close trend down and below EMA20">>]
        ELSE IF pslope > 0
        THEN [phase |-> "ToppingRange",
              reasons |-> <<"Stalling after uptrend -> topping/range">>]
        ELSE IF pslope < 0
        THEN [phase |-> "BottomingRange",
              reasons |-> <<"Stalling after downtrend -> bottoming/range">>]
        ELSE [phase |-> "Range", reasons |-> <<"Choppy/range-like structure">>]

\* Mutant of classify_phase_simple: the minimum is lookback bars.
ClassifyPhaseShortMinimum(d, em, lookback) ==
    IF Len(d) < lookback
    THEN [phase |-> "Unknown", reasons |-> <<"Not enough data">>]
    ELSE ClassifyWindow(d, em, lookback)

\* classify_phase_simple(df, lookback)
ClassifyPhase(d, em, lookback) ==
    IF Len(d) < lookback + 5
    THEN [phase |-> "Unknown", reasons |-> <<"Not enough data">>]
    ELSE ClassifyWindow(d, em, lookback)

\* Mutant of is_extended_from_ema9: an unavailable atr14 counts as zero.
IsExtendedNaAsZero(d, em) ==
    LET atr == d[Len(d)].atr14
        a == IF atr = NA THEN 0 ELSE Val(atr)
    IN  2 * AtrWindow * Abs(d[Len(d)].close - Val(em).ema9) >= 3 * a

\* is_extended_from_ema9(df), mult = 1.5
IsExtendedFromEma9(d, em) ==
    LET atr == d[Len(d)].atr14
    IN  IF atr = NA \/ Val(atr) = 0 THEN FALSE
        ELSE 2 * AtrWindow * Abs(d[Len(d)].close - Val(em).ema9) >= 3 * Val(atr)

Max2(a, b) == IF a >= b THEN a ELSE b
Min2(a, b) == IF a <= b THEN a ELSE b

\* Mutant of reversal_candle_hint: the wick threshold is exclusive.
ReversalCandleHintStrictWick(d) ==
    LET o == d[Len(d)].open
        h == d[Len(d)].high
        l == d[Len(d)].low
        c == d[Len(d)].close
        rng == h - l
        body == Abs(c - o)
        upper_wick == h - Max2(o, c)
        lower_wick == Min2(o, c) - l
        doji_like == 4 * body <= rng
        wick_like == (20 * upper_wick > 9 * rng) \/ (20 * lower_wick > 9 * rng)
    IN  IF rng = 0 THEN FALSE ELSE doji_like \/ wick_like

\* reversal_candle_hint(df): body <= 0.25 * rng, or a wick >= 0.45 * rng
ReversalCandleHint(d) ==
    LET o == d[Len(d)].open
        h == d[Len(d)].high
        l == d[Len(d)].low
        c == d[Len(d)].close
        rng == h - l
        body == Abs(c - o)
        upper_wick == h - Max2(o, c)
        lower_wick == Min2(o, c) - l
        doji_like == 4 * body <= rng
        wick_like == (20 * upper_wick >= 9 * rng) \/ (20 * lower_wick >= 9 * rng)
    IN  IF rng = 0 THEN FALSE ELSE doji_like \/ wick_like

\* flags[k] = v
Put(f, k, v) == [x \in (DOMAIN f) \cup {k} |-> IF x = k THEN v ELSE f[x]]

\* ------------------------------------------- direct calls of the helpers
\* Frames handed to candle_type and range_type directly: up to MaxRows rows,
\* highs and lows in 1..MaxFramePrice, an atr14 column that is unavailable or
\* holds one of a few means (as sums over AtrWindow rows: 0, 2 and 2.5).
MaxRows == 2
MaxFramePrice == 4

AtrColumns == {NA, Some(0), Some(2 * AtrWindow), Some(5 * (AtrWindow \div 2))}

FrameRows(hl, atr) ==
    [k \in 1..Len(hl) |->
        [open   |-> hl[k][2],
         high   |-> hl[k][1],
         low    |-> hl[k][2],
         close  |-> hl[k][1],
         sma50  |-> NA,
         sma200 |-> NA,
         atr14  |-> atr]]

\* The frame's last ema9/ema20 entries: the least or the greatest price.
FrameEmas == {Some([ema9 |-> e, ema20 |-> e]) : e \in {1, MaxFramePrice}}

FramePairs == {hl \in (1..MaxFramePrice) \X (1..MaxFramePrice) : hl[2] <= hl[1]}

PivotIdle ==
    /\ bars = <<>>
    /\ InitLocals
    /\ pc = "idle"

InitFrame ==
    /\ \E n \in 1..MaxRows :
         \E hl \in [1..n -> FramePairs] :
           \E atr \in AtrColumns :
             df_ind = FrameRows(hl, atr)
    /\ df_in = <<>>
    /\ ema \in FrameEmas
    /\ apc = "frame"
    /\ phase = ""
    /\ preasons = <<>>
    /\ reasons = <<>>
    /\ flags = <<>>
    /\ tomorrow = ""
    /\ call = NA
    /\ ret = NA
    /\ prevResult = NA
    /\ PivotIdle
    /\ WorkerNew

\* candle_type(df, i) called on the frame
DirectCandleType ==
    /\ apc \in {"frame", "returned"}
    /\ \E idx \in 0..(Len(df_ind) - 1) :
         /\ call' = Some([fn |-> "candle_type", arg |-> idx])
         /\ ret' = Some(CandleType(df_ind, idx))
    /\ apc' = "returned"
    /\ UNCHANGED <<df_in, df_ind, ema, phase, preasons, reasons, flags, tomorrow>>
    /\ UNCHANGED <<workerVars, pivotVars, prevFinal, prevResult>>

\* range_type(df, lookback) called on the frame
DirectRangeType ==
    /\ apc \in {"frame", "returned"}
    /\ \E lookback \in 1..(MaxRows + 1) :
         /\ call' = Some([fn |-> "range_type", arg |-> lookback])
         /\ ret' = Some(RangeType(df_ind, lookback))
    /\ apc' = "returned"
    /\ UNCHANGED <<df_in, df_ind, ema, phase, preasons, reasons, flags, tomorrow>>
    /\ UNCHANGED <<workerVars, pivotVars, prevFinal, prevResult>>

\* is_extended_from_ema9(df) called on the frame; it reads the last row
DirectIsExtended ==
    /\ apc \in {"frame", "returned"}
    /\ call' = Some([fn |-> "is_extended_from_ema9", arg |-> Len(df_ind) - 1])
    /\ ret' = Some(IsExtendedFromEma9(df_ind, ema))
    /\ apc' = "returned"
    /\ UNCHANGED <<df_in, df_ind, ema, phase, preasons, reasons, flags, tomorrow>>
    /\ UNCHANGED <<workerVars, pivotVars, prevFinal, prevResult>>

NextFrame ==
    \/ DirectCandleType
    \/ DirectRangeType
    \/ DirectIsExtended

SpecFrame == InitFrame /\ [][NextFrame]_vars

\* ------------------------------------------------------ predict_tomorrow
\* The series handed to predict_tomorrow: up to MaxBars bars around BasePrice,
\* drifting by dOld per bar up to the last Lookback bars and by dNew within
\* them, zig-zagging by zig on odd bars, each bar w above and below its middle;
\* the last bar is a full-body bar, a doji at its high or at its low, or a bar
\* closing Jump beyond its range.
MaxBars == 51
BasePrice == 100
Jump == 20

Drifts == {-1, 0, 1}
Widths == {0, 2}
Zigs == {0, 2}
Shapes == {"full", "doji", "dojiLow", "up", "down"}

Mid(n, k, dOld, dNew, zig) ==
    LET split == Max0(0, n - Lookback)
    IN  BasePrice + (IF k <= split THEN dOld ELSE dNew) * (k - split) + zig * (k % 2)

Bar(mid, w, shape) ==
    CASE shape = "full" ->
           [open |-> mid - w, high |-> mid + w, low |-> mid - w, close |-> mid + w]
      [] shape = "doji" ->
           [open |-> mid + w, high |-> mid + w, low |-> mid - w, close |-> mid + w]
      [] shape = "dojiLow" ->
           [open |-> mid - w, high |-> mid + w, low |-> mid - w, close |-> mid - w]
      [] shape = "up" ->
           [open |-> mid - w, high |-> mid + w + Jump, low |-> mid - w,
            close |-> mid + w + Jump]
      [] shape = "down" ->
           [open |-> mid + w, high |-> mid + w, low |-> mid - w - Jump,
            close |-> mid - w - Jump]

DriftSeries(n, dOld, dNew, zig, w, shape) ==
    [k \in 1..n |-> Bar(Mid(n, k, dOld, dNew, zig), w, IF k = n THEN shape ELSE "full")]

\* The last entries of the ewm(span, adjust=False).mean() columns. Every entry
\* of such a column is a weighted mean of the closes so far, so it lies between
\* the least and the greatest close; the model takes it from the ends of that
\* interval and the last close, and, like the code, fixes it by the series.
EmaOf(raw) ==
    IF Len(raw) = 0 THEN {NA}
    ELSE LET closes == {raw[k].close : k \in 1..Len(raw)}
             least == CHOOSE c \in closes : \A x \in closes : c <= x
             greatest == CHOOSE c \in closes : \A x \in closes : c >= x
             ends == {least, raw[Len(raw)].close, greatest}
         IN  {Some([ema9 |-> e9, ema20 |-> e20]) : e9 \in ends, e20 \in ends}

PredictLocals ==
    /\ df_ind = <<>>
    /\ apc = "start"
    /\ phase = ""
    /\ preasons = <<>>
    /\ reasons = <<>>
    /\ flags = <<>>
    /\ tomorrow = ""
    /\ call = Some([fn |-> "predict_tomorrow", arg |-> 0])
    /\ ret = NA
    /\ prevResult = NA

InitPredict ==
    /\ \E n \in 0..MaxBars :
         \E dOld \in Drifts, dNew \in Drifts :
           \E zig \in Zigs, w \in Widths :
             \E shape \in Shapes :
               df_in = DriftSeries(n, dOld, dNew, zig, w, shape)
    /\ ema \in EmaOf(df_in)
    /\ PredictLocals
    /\ PivotIdle
    /\ WorkerNew

Last(d) == d[Len(d)]

\* Mutant of the entry step: reasons is not reset.
PredictStartKeepsReasons ==
    /\ apc = "start"
    /\ df_ind' = AddIndicators(df_in)
    /\ LET r == ClassifyPhase(df_ind', ema, Lookback)
       IN  /\ phase' = r.phase
           /\ preasons' = r.reasons
           /\ reasons' = reasons \o r.reasons
    /\ flags' = <<>>
    /\ call' = Some([fn |-> "predict_tomorrow", arg |-> Val(call).arg + 1])
    /\ apc' = "sma50"
    /\ UNCHANGED <<df_in, ema, tomorrow, ret, prevResult>>
    /\ UNCHANGED <<workerVars, pivotVars, prevFinal>>

\* predict_tomorrow, lines 148-155
PredictStart ==
    /\ apc = "start"
    /\ df_ind' = AddIndicators(df_in)
    /\ LET r == ClassifyPhase(df_ind', ema, Lookback)
       IN  /\ phase' = r.phase
           /\ preasons' = r.reasons
           /\ reasons' = r.reasons
    /\ flags' = <<>>
    /\ call' = Some([fn |-> "predict_tomorrow", arg |-> Val(call).arg + 1])
    /\ apc' = "sma50"
    /\ UNCHANGED <<df_in, ema, tomorrow, ret, prevResult>>
    /\ UNCHANGED <<workerVars, pivotVars, prevFinal>>

\* lines 157-166; df.iloc[-1] raises IndexError on an empty frame
Sma50Flag ==
    /\ apc = "sma50"
    /\ IF Len(df_ind) = 0
       THEN /\ apc' = "raised"
            /\ flags' = flags
       ELSE /\ apc' = "bartype"
            /\ flags' = Put(flags, "50SMA",
                  IF notna(Last(df_ind).sma50)
                  THEN IF Sma50Window * Last(df_ind).close > Val(Last(df_ind).sma50)
                       THEN "Above"
                       ELSE IF Sma50Window * Last(df_ind).close < Val(Last(df_ind).sma50)
                       THEN "Below"
                       ELSE "At"
                  ELSE "N/A")
    /\ UNCHANGED <<df_in, df_ind, ema, phase, preasons, reasons, tomorrow, call, ret,
                   prevResult>>
    /\ UNCHANGED <<workerVars, pivotVars, prevFinal>>

\* lines 168-172
DailyBarType ==
    /\ apc = "bartype"
    /\ flags' = Put(flags, "DailyBarType", CandleType(df_ind, Len(df_ind) - 1))
    /\ tomorrow' = "NoSignal"
    /\ apc' = "decide"
    /\ UNCHANGED <<df_in, df_ind, ema, phase, preasons, reasons, call, ret, prevResult>>
    /\ UNCHANGED <<workerVars, pivotVars, prevFinal>>

\* Mutant of the trend branch: a break in either direction counts.
TrendBranchAnyBreak ==
    /\ apc = "decide"
    /\ phase \in {"Advancing", "Declining"}
    /\ LET n == Len(df_ind)
           measured == n > PrevWindow
           prev_hi == MaxHigh(df_ind, n - PrevWindow + 1, n - 1)
           prev_lo == MinLow(df_ind, n - PrevWindow + 1, n - 1)
           broke_up == IF measured THEN Last(df_ind).close > prev_hi ELSE FALSE
           broke_dn == IF measured THEN Last(df_ind).close < prev_lo ELSE FALSE
           ext == IsExtendedFromEma9(df_ind, ema)
           rev == ReversalCandleHint(df_ind)
       IN  IF broke_up
           THEN /\ reasons' = Append(reasons,
                      "Recent range break up -> expect follow-through")
                /\ tomorrow' = "ContinuationLikely"
           ELSE IF broke_dn
           THEN /\ reasons' = Append(reasons,
                      "Recent range break down -> expect follow-through selling")
                /\ tomorrow' = "ContinuationLikely"
           ELSE IF ext /\ rev
           THEN /\ reasons' = Append(reasons,
                      "Extended from EMA9 + reversal hint -> pause/reversal likely")
                /\ tomorrow' = "PauseOrReversalLikely"
           ELSE /\ reasons' = Append(reasons, "Phase intact -> continuation bias")
                /\ tomorrow' = "ContinuationLikely"
    /\ apc' = "note"
    /\ UNCHANGED <<df_in, df_ind, ema, phase, preasons, flags, call, ret, prevResult>>
    /\ UNCHANGED <<workerVars, pivotVars, prevFinal>>

\* lines 174-202
TrendBranch ==
    /\ apc = "decide"
    /\ phase \in {"Advancing", "Declining"}
    /\ LET n == Len(df_ind)
           measured == n > PrevWindow
           prev_hi == MaxHigh(df_ind, n - PrevWindow + 1, n - 1)
           prev_lo == MinLow(df_ind, n - PrevWindow + 1, n - 1)
           broke_up == IF measured THEN Last(df_ind).close > prev_hi ELSE FALSE
           broke_dn == IF measured THEN Last(df_ind).close < prev_lo ELSE FALSE
           ext == IsExtendedFromEma9(df_ind, ema)
           rev == ReversalCandleHint(df_ind)
       IN  IF phase = "Advancing" /\ broke_up
           THEN /\ reasons' = Append(reasons,
                      "Recent range break up -> expect follow-through")
                /\ tomorrow' = "ContinuationLikely"
           ELSE IF phase = "Declining" /\ broke_dn
           THEN /\ reasons' = Append(reasons,
                      "Recent range break down -> expect follow-through selling")
                /\ tomorrow' = "ContinuationLikely"
           ELSE IF ext /\ rev
           THEN /\ reasons' = Append(reasons,
                      "Extended from EMA9 + reversal hint -> pause/reversal likely")
                /\ tomorrow' = "PauseOrReversalLikely"
           ELSE /\ reasons' = Append(reasons, "Phase intact -> continuation bias")
                /\ tomorrow' = "ContinuationLikely"
    /\ apc' = "note"
    /\ UNCHANGED <<df_in, df_ind, ema, phase, preasons, flags, call, ret, prevResult>>
    /\ UNCHANGED <<workerVars, pivotVars, prevFinal>>

\* Mutant of the range branch: the edges decide without the reversal hint.
RangeBranchNoHint ==
    /\ apc = "decide"
    /\ phase \notin {"Advancing", "Declining"}
    /\ LET r == RangeType(df_ind, RangeLookback)
           rh == r.info.range_high
           rl == r.info.range_low
           px == Last(df_ind).close
           near_high == 5 * (px - rl) >= 4 * (rh - rl)
           near_low == 5 * (px - rl) <= rh - rl
           rev == ReversalCandleHint(df_ind)
       IN  /\ flags' = Put(flags, "RangeType", r.typ)
           /\ IF r.typ = "Tight"
              THEN /\ reasons' = Append(reasons,
                         "Tight range -> avoid unless fake breakout")
                   /\ tomorrow' = "AvoidUnlessFakeBreak"
              ELSE IF r.typ = "Wide"
              THEN IF near_high
                   THEN /\ reasons' = Append(reasons,
                              "Wide range near high + confirmation hint -> 1-day down bias")
                        /\ tomorrow' = "OneDayDownBias"
                   ELSE IF near_low
                   THEN /\ reasons' = Append(reasons,
                              "Wide range near low + confirmation hint -> 1-day up bias")
                        /\ tomorrow' = "OneDayUpBias"
                   ELSE /\ reasons' = Append(reasons,
                              "Range but no edge confirmation -> no strong prediction")
                        /\ tomorrow' = "NoStrongPrediction"
              ELSE /\ reasons' = Append(reasons, "Range unclear -> no strong prediction")
                   /\ tomorrow' = "NoStrongPrediction"
    /\ apc' = "note"
    /\ UNCHANGED <<df_in, df_ind, ema, phase, preasons, call, ret, prevResult>>
    /\ UNCHANGED <<workerVars, pivotVars, prevFinal>>

\* Mutant of the range branch: an unclear range leaves the bias as it was.
RangeBranchUnclearKeepsBias ==
    /\ apc = "decide"
    /\ phase \notin {"Advancing", "Declining"}
    /\ LET r == RangeType(df_ind, RangeLookback)
           rh == r.info.range_high
           rl == r.info.range_low
           px == Last(df_ind).close
           near_high == 5 * (px - rl) >= 4 * (rh - rl)
           near_low == 5 * (px - rl) <= rh - rl
           rev == ReversalCandleHint(df_ind)
       IN  /\ flags' = Put(flags, "RangeType", r.typ)
           /\ IF r.typ = "Tight"
              THEN /\ reasons' = Append(reasons,
                         "Tight range -> avoid unless fake breakout")
                   /\ tomorrow' = "AvoidUnlessFakeBreak"
              ELSE IF r.typ = "Wide"
              THEN IF near_high /\ rev
                   THEN /\ reasons' = Append(reasons,
                              "Wide range near high + confirmation hint -> 1-day down bias")
                        /\ tomorrow' = "OneDayDownBias"
                   ELSE IF near_low /\ rev
                   THEN /\ reasons' = Append(reasons,
                              "Wide range near low + confirmation hint -> 1-day up bias")
                        /\ tomorrow' = "OneDayUpBias"
                   ELSE /\ reasons' = Append(reasons,
                              "Range but no edge confirmation -> no strong prediction")
                        /\ tomorrow' = "NoStrongPrediction"
              ELSE /\ reasons' = Append(reasons, "Range unclear -> no strong prediction")
                   /\ tomorrow' = tomorrow
    /\ apc' = "note"
    /\ UNCHANGED <<df_in, df_ind, ema, phase, preasons, call, ret, prevResult>>
    /\ UNCHANGED <<workerVars, pivotVars, prevFinal>>

\* lines 204-231
RangeBranch ==
    /\ apc = "decide"
    /\ phase \notin {"Advancing", "Declining"}
    /\ LET r == RangeType(df_ind, RangeLookback)
           rh == r.info.range_high
           rl == r.info.range_low
           px == Last(df_ind).close
           near_high == 5 * (px - rl) >= 4 * (rh - rl)
           near_low == 5 * (px - rl) <= rh - rl
           rev == ReversalCandleHint(df_ind)
       IN  /\ flags' = Put(flags, "RangeType", r.typ)
           /\ IF r.typ = "Tight"
              THEN /\ reasons' = Append(reasons,
                         "Tight range -> avoid unless fake breakout")
                   /\ tomorrow' = "AvoidUnlessFakeBreak"
              ELSE IF r.typ = "Wide"
              THEN IF near_high /\ rev
                   THEN /\ reasons' = Append(reasons,
                              "Wide range near high + confirmation hint -> 1-day down bias")
                        /\ tomorrow' = "OneDayDownBias"
                   ELSE IF near_low /\ rev
                   THEN /\ reasons' = Append(reasons,
                              "Wide range near low + confirmation hint -> 1-day up bias")
                        /\ tomorrow' = "OneDayUpBias"
                   ELSE /\ reasons' = Append(reasons,
                              "Range but no edge confirmation -> no strong prediction")
                        /\ tomorrow' = "NoStrongPrediction"
              ELSE /\ reasons' = Append(reasons, "Range unclear -> no strong prediction")
                   /\ tomorrow' = "NoStrongPrediction"
    /\ apc' = "note"
    /\ UNCHANGED <<df_in, df_ind, ema, phase, preasons, call, ret, prevResult>>
    /\ UNCHANGED <<workerVars, pivotVars, prevFinal>>

\* Mutant of the result: the reasons are handed over in reverse order.
PredictionResultReversedReasons(ph, bias, rs, fl) ==
    [phase |-> ph, tomorrow_bias |-> bias,
     reasons |-> [k \in 1..Len(rs) |-> rs[Len(rs) + 1 - k]], flags |-> fl]

\* PredictionResult(phase, tomorrow_bias, reasons, flags), lines 237-242
PredictionResult(ph, bias, rs, fl) ==
    [phase |-> ph, tomorrow_bias |-> bias, reasons |-> rs, flags |-> fl]

\* Mutant of the last step: every bar type gets a note.
ExecutionNoteAlways ==
    /\ apc = "note"
    /\ LET bt == flags["DailyBarType"]
       IN  flags' =
             IF bt = "InsideBar"
             THEN Put(flags, "ExecutionNote",
                      "InsideBar -> quick partials, do not aim full ATR")
             ELSE IF bt = "OutsideBar"
             THEN Put(flags, "ExecutionNote",
                      "OutsideBar -> higher continuation odds, ATR more likely")
             ELSE IF bt = "LongBar"
             THEN Put(flags, "ExecutionNote",
                      "LongBar -> next day often pause/retrace, pinpoint or skip")
             ELSE Put(flags, "ExecutionNote", bt)
    /\ ret' = Some(PredictionResult(phase, tomorrow, reasons, flags'))
    /\ apc' = "done"
    /\ UNCHANGED <<df_in, df_ind, ema, phase, preasons, reasons, tomorrow, call,
                   prevResult>>
    /\ UNCHANGED <<workerVars, pivotVars, prevFinal>>

\* lines 233-242
ExecutionNote ==
    /\ apc = "note"
    /\ LET bt == flags["DailyBarType"]
       IN  flags' =
             IF bt = "InsideBar"
             THEN Put(flags, "ExecutionNote",
                      "InsideBar -> quick partials, do not aim full ATR")
             ELSE IF bt = "OutsideBar"
             THEN Put(flags, "ExecutionNote",
                      "OutsideBar -> higher continuation odds, ATR more likely")
             ELSE IF bt = "LongBar"
             THEN Put(flags, "ExecutionNote",
                      "LongBar -> next day often pause/retrace, pinpoint or skip")
             ELSE flags
    /\ ret' = Some(PredictionResult(phase, tomorrow, reasons, flags'))
    /\ apc' = "done"
    /\ UNCHANGED <<df_in, df_ind, ema, phase, preasons, reasons, tomorrow, call,
                   prevResult>>
    /\ UNCHANGED <<workerVars, pivotVars, prevFinal>>

\* The caller calls predict_tomorrow again (app.py calls it once per request):
\* on the same series, or on the series without its last bar. The locals of
\* the previous call are left as they were.
MaxCalls == 3

PredictAgain ==
    /\ apc = "done"
    /\ Val(call).arg < MaxCalls
    /\ \/ /\ df_in' = df_in
          /\ ema' = ema
          /\ prevResult' = ret
       \/ /\ Val(call).arg = 1
          /\ Len(df_in) > 0
          /\ df_in' = SubSeq(df_in, 1, Len(df_in) - 1)
          /\ ema' \in EmaOf(df_in')
          /\ prevResult' = NA
    /\ apc' = "start"
    /\ UNCHANGED <<df_ind, phase, preasons, reasons, flags, tomorrow, call, ret>>
    /\ UNCHANGED <<workerVars, pivotVars, prevFinal>>

NextPredict ==
    \/ PredictStart
    \/ Sma50Flag
    \/ DailyBarType
    \/ TrendBranch
    \/ RangeBranch
    \/ ExecutionNote

SpecPredict == InitPredict /\ [][NextPredict]_vars

\* Repeated calls: the series of the pivot engine, and for predict_tomorrow
\* series of a few lengths with one drift throughout and the wider bars.
CallLengths == {1, Lookback + 5, MaxBars}

InitCalls ==
    /\ \E n \in CallLengths :
         \E d \in Drifts, zig \in Zigs, shape \in Shapes :
           df_in = DriftSeries(n, d, d, zig, 2, shape)
    /\ ema \in EmaOf(df_in)
    /\ PredictLocals
    /\ PivotIdle
    /\ WorkerNew

SpecCalls == (Init \/ InitCalls) /\ [][Next \/ NextPredict \/ PredictAgain]_vars

\* Every consumer of an indicator: the pivot engine, the helpers called
\* directly, and predict_tomorrow on the series of InitCalls.
SpecIndicators ==
    (Init \/ InitFrame \/ InitCalls) /\ [][Next \/ NextFrame \/ NextPredict]_vars

\* reversal_candle_hint(df) called on a frame of one bar: the low is 1, the
\* high is 0, 4 or MaxWidth above it, open and close lie anywhere between.
MaxWidth == 20

HintWidths == {0, 4, MaxWidth}

HintBar(o, h, l, c) ==
    [open |-> o, high |-> h, low |-> l, close |-> c,
     sma50 |-> NA, sma200 |-> NA, atr14 |-> NA]

InitHint ==
    /\ \E w \in HintWidths :
         \E o \in 1..(1 + w), c \in 1..(1 + w) :
           df_ind = <<HintBar(o, 1 + w, 1, c)>>
    /\ df_in = <<>>
    /\ ema = Some([ema9 |-> 1, ema20 |-> 1])
    /\ apc = "frame"
    /\ phase = ""
    /\ preasons = <<>>
    /\ reasons = <<>>
    /\ flags = <<>>
    /\ tomorrow = ""
    /\ call = NA
    /\ ret = NA
    /\ prevResult = NA
    /\ PivotIdle
    /\ WorkerNew

\* reversal_candle_hint(df) called on the frame; it reads the last row
DirectReversalHint ==
    /\ apc \in {"frame", "returned"}
    /\ call' = Some([fn |-> "reversal_candle_hint", arg |-> Len(df_ind) - 1])
    /\ ret' = Some(ReversalCandleHint(df_ind))
    /\ apc' = "returned"
    /\ UNCHANGED <<df_in, df_ind, ema, phase, preasons, reasons, flags, tomorrow>>
    /\ UNCHANGED <<workerVars, pivotVars, prevFinal, prevResult>>

SpecHint == InitHint /\ [][DirectReversalHint]_vars

\* The two passes after the walk, run on any raw pivot list: up to MaxLen
\* pivots of either kind with any of the wide prices.
RawPivots ==
    UNION {[1..n -> {"HH", "LL"} \X WidePrices] : n \in 0..MaxLen}

InitLists ==
    /\ \E raw \in RawPivots :
         pivots = [n \in 1..Len(raw) |-> Pivot(n - 1, n, raw[n][2], raw[n][1])]
    /\ pc = "cleanup"
    /\ bars = <<>>
    /\ state = "NEUTRAL"
    /\ i = 0
    /\ last_HL = NA
    /\ last_LH = NA
    /\ break_index = NA
    /\ prev_high = NA
    /\ prev_low = NA
    /\ pending_HH = NA
    /\ pending_LL = NA
    /\ cleaned = <<>>
    /\ final = <<>>
    /\ prevFinal = NA
    /\ AnalysisIdle
    /\ WorkerNew

NextLists ==
    \/ CleanUpPass
    \/ ReturnFinal

SpecLists == InitLists /\ [][NextLists]_vars

\* ------------------------------------------------------ ibkr_worker.py
\* IBKRWorker: start() and stop() are called from the application's thread,
\* _run runs in the worker thread.  The caller makes up to MaxStarts calls of
\* start().
MaxStarts == 3

callerVars == <<start_pc, nstart>>
otherVars == <<pivotVars, prevFinal, analysisVars>>

InitWorker ==
    /\ WorkerNew
    /\ PivotIdle
    /\ AnalysisIdle

CallerFree == start_pc \in {"idle", "returned", "raised"}

\* start() is called
StartCall ==
    /\ CallerFree
    /\ nstart < MaxStarts
    /\ nstart' = nstart + 1
    /\ start_pc' = "entered"
    /\ UNCHANGED <<_thread, _loop, _ib, _ready, run_pc, stopping>>
    /\ UNCHANGED otherVars

\* if self._thread and self._thread.is_alive(): return
StartAlive ==
    /\ start_pc = "entered"
    /\ _thread = "alive"
    /\ start_pc' = "returned"
    /\ UNCHANGED <<_thread, _loop, _ib, _ready, run_pc, stopping, nstart>>
    /\ UNCHANGED otherVars

\* self._thread = threading.Thread(target=self._run, ...); self._thread.start()
StartThread ==
    /\ start_pc = "entered"
    /\ _thread # "alive"
    /\ _thread' = "alive"
    /\ run_pc' = "begin"
    /\ start_pc' = "wait"
    /\ UNCHANGED <<_loop, _ib, _ready, stopping, nstart>>
    /\ UNCHANGED otherVars

\* self._ready.wait(timeout=20) returns True: start() returns
StartReady ==
    /\ start_pc = "wait"
    /\ _ready
    /\ start_pc' = "returned"
    /\ UNCHANGED <<_thread, _loop, _ib, _ready, run_pc, stopping, nstart>>
    /\ UNCHANGED otherVars

\* self._ready.wait(timeout=20) returns False: raise RuntimeError
StartTimeout ==
    /\ start_pc = "wait"
    /\ ~_ready
    /\ start_pc' = "raised"
    /\ UNCHANGED <<_thread, _loop, _ib, _ready, run_pc, stopping, nstart>>
    /\ UNCHANGED otherVars

\* _run: self._loop = asyncio.new_event_loop()
RunBegin ==
    /\ run_pc = "begin"
    /\ _loop' = "open"
    /\ stopping' = FALSE
    /\ run_pc' = "init"
    /\ UNCHANGED <<_thread, _ib, _ready>>
    /\ UNCHANGED callerVars
    /\ UNCHANGED otherVars

\* init(): self._ib = IB(); connectAsync returns.  A stop scheduled meanwhile
\* is still pending or was consumed by run_until_complete.
ConnectOk ==
    /\ run_pc = "init"
    /\ _ib' = "connected"
    /\ stopping' \in {stopping, FALSE}
    /\ run_pc' = "set_ready"
    /\ UNCHANGED <<_thread, _loop, _ready>>
    /\ UNCHANGED callerVars
    /\ UNCHANGED otherVars

\* init(): self._ready.set(); then self._loop.run_forever()
SetReady ==
    /\ run_pc = "set_ready"
    /\ _ready' = TRUE
    /\ run_pc' = "forever"
    /\ UNCHANGED <<_thread, _loop, _ib, stopping>>
    /\ UNCHANGED callerVars
    /\ UNCHANGED otherVars

\* run_until_complete(init()) raises: connectAsync failed or timed out, or
\* the loop was stopped before init() completed
ConnectFail ==
    /\ run_pc = "init"
    /\ _ib' = "disconnected"
    /\ run_pc' = "except"
    /\ UNCHANGED <<_thread, _loop, _ready, stopping>>
    /\ UNCHANGED callerVars
    /\ UNCHANGED otherVars

\* except Exception: self._ready.set(); print(...)
Except ==
    /\ run_pc = "except"
    /\ _ready' = TRUE
    /\ run_pc' = "finally"
    /\ UNCHANGED <<_thread, _loop, _ib, stopping>>
    /\ UNCHANGED callerVars
    /\ UNCHANGED otherVars

\* The connection to TWS/IBG drops while the loop runs: isConnected() turns
\* false.
ConnectionLost ==
    /\ run_pc = "forever"
    /\ _ib = "connected"
    /\ _ib' = "disconnected"
    /\ UNCHANGED <<_thread, _loop, _ready, run_pc, stopping>>
    /\ UNCHANGED callerVars
    /\ UNCHANGED otherVars

\* run_forever() returns: the scheduled loop.stop ran
LoopStopped ==
    /\ run_pc = "forever"
    /\ stopping
    /\ run_pc' = "finally"
    /\ UNCHANGED <<_thread, _loop, _ib, _ready, stopping>>
    /\ UNCHANGED callerVars
    /\ UNCHANGED otherVars

\* finally: disconnect if connected; close the loop; the thread ends
Finally ==
    /\ run_pc = "finally"
    /\ _ib' = IF _ib = "connected" THEN "disconnected" ELSE _ib
    /\ _loop' = "closed"
    /\ run_pc' = "exited"
    /\ _thread' = "finished"
    /\ UNCHANGED <<_ready, stopping>>
    /\ UNCHANGED callerVars
    /\ UNCHANGED otherVars

\* stop(): if self._loop: call_soon_threadsafe(self._loop.stop); on a closed
\* loop call_soon_threadsafe raises and nothing changes
StopCall ==
    /\ CallerFree
    /\ _loop = "open"
    /\ ~stopping
    /\ stopping' = TRUE
    /\ UNCHANGED <<_thread, _loop, _ib, _ready, run_pc>>
    /\ UNCHANGED callerVars
    /\ UNCHANGED otherVars

\* _require() does not raise
Require == _loop # "none" /\ _ib # "none" /\ _ib = "connected"

NextWorker ==
    \/ StartCall
    \/ StartAlive
    \/ StartThread
    \/ StartReady
    \/ StartTimeout
    \/ RunBegin
    \/ ConnectOk
    \/ SetReady
    \/ ConnectFail
    \/ Except
    \/ ConnectionLost
    \/ LoopStopped
    \/ Finally
    \/ StopCall

SpecWorker == InitWorker /\ [][NextWorker]_vars

\* ------------------------------------------------------------- claims
Returned == pc = "done"

\* A bar series as the data model requires it: low <= high in every bar and
\* strictly increasing dates.
ValidSeries(df) ==
    /\ \A k \in 1..Len(df) : df[k].low <= df[k].high
    /\ \A k \in 1..(Len(df) - 1) : df[k].date < df[k + 1].date

\* C1: the list build_structure_pivots returns never holds two adjacent pivots
\* of the same kind.
C1_KindsAlternate ==
    Returned => \A j \in 1..(Len(final) - 1) : final[j].kind # final[j + 1].kind

\* A returned list of at least three pivots whose raw list had a same-kind run.
C1_Witness ==
    /\ Returned
    /\ Len(final) >= 3
    /\ \E j \in 1..(Len(pivots) - 1) : pivots[j].kind = pivots[j + 1].kind

\* C2: the bar indices of the returned pivots are strictly increasing along the list.
C2_IndicesIncrease ==
    Returned => \A j \in 1..(Len(final) - 1) : final[j].i < final[j + 1].i

\* C3: structurally invalid input (high < low, dates not strictly increasing) is
\* rejected: the engine never returns for such a series.
C3_InvalidInputRejected ==
    ~ValidSeries(bars) => ~Returned

\* No bar has both moving averages available and ordered with the close.
NoTrendBar(df) ==
    \A k \in 1..Len(df) :
        \/ df[k].sma50 = NA
        \/ df[k].sma200 = NA
        \/ ~ \/ (df[k].close >= Val(df[k].sma50) /\ Val(df[k].sma50) >= Val(df[k].sma200))
             \/ (df[k].close <= Val(df[k].sma50) /\ Val(df[k].sma50) <= Val(df[k].sma200))

\* C4: an empty series, a single-bar series and a series whose bootstrap never
\* leaves NEUTRAL yield the empty pivot sequence.
C4_EmptyResult ==
    (Returned /\ (Len(bars) <= 1 \/ NoTrendBar(bars))) => final = <<>>

\* A series of several bars, some with a moving average available, that the
\* bootstrap scans to its end without finding a trend.
C4_Witness ==
    /\ Returned
    /\ Len(bars) >= 2
    /\ NoTrendBar(bars)
    /\ \E k \in 1..Len(bars) : notna(bars[k].sma50)
    /\ final = <<>>

\* The helper called directly, its argument and the frame's rows.
Called(fn) == apc = "returned" /\ Val(call).fn = fn
Arg == Val(call).arg
Cur == Row(df_ind, Arg)
Prev == Row(df_ind, Arg - 1)

TrailingRows == {k \in 1..Len(df_ind) : k > Len(df_ind) - Arg}
TrailingWidth ==
    LET top == CHOOSE h \in {df_ind[k].high : k \in TrailingRows} :
                   \A k \in TrailingRows : df_ind[k].high <= h
        bottom == CHOOSE l \in {df_ind[k].low : k \in TrailingRows} :
                      \A k \in TrailingRows : df_ind[k].low >= l
    IN  top - bottom
LastAtr == df_ind[Len(df_ind)].atr14

\* C10: range_type is Unknown iff the latest atr14 is unavailable or zero,
\* else Tight iff the trailing width <= 1.2 * atr14, else Wide.
C10_RangeType ==
    Called("range_type") =>
        /\ Val(ret).typ = "Unknown" <=> (LastAtr = NA \/ Val(LastAtr) = 0)
        /\ Val(ret).typ = "Tight" <=>
             (LastAtr # NA /\ Val(LastAtr) # 0
                /\ 10 * AtrWindow * TrailingWidth <= 12 * Val(LastAtr))
        /\ Val(ret).typ = "Wide" <=>
             (LastAtr # NA /\ Val(LastAtr) # 0
                /\ 10 * AtrWindow * TrailingWidth > 12 * Val(LastAtr))

\* A width exactly 1.2 * atr14, over fewer rows than the frame has, is Tight.
C10_Witness ==
    /\ Called("range_type")
    /\ Arg < Len(df_ind)
    /\ LastAtr # NA
    /\ 10 * AtrWindow * TrailingWidth = 12 * Val(LastAtr)
    /\ TrailingWidth > 0
    /\ Val(ret).typ = "Tight"

\* classify_phase_simple has returned within predict_tomorrow.
Classified == apc \in {"sma50", "bartype", "decide", "note", "done", "raised"}
Finished == apc = "done"
KnownPhases == {"Advancing", "Declining", "ToppingRange", "BottomingRange", "Range"}

\* C5: the phase is Unknown exactly when the series has fewer than lookback+5
\* bars, then with the reasons ["Not enough data"]; from lookback+5 bars on it
\* is one of Advancing, Declining, ToppingRange, BottomingRange, Range.
C5_UnknownIffShort ==
    Classified =>
        /\ phase = "Unknown" <=> Len(df_in) < Lookback + 5
        /\ phase = "Unknown" => preasons = <<"Not enough data">>
        /\ Len(df_in) >= Lookback + 5 => phase \in KnownPhases

\* One bar short of the minimum, with atr14 and a full window available.
C5_Witness ==
    /\ Classified
    /\ Len(df_in) = Lookback + 4
    /\ phase = "Unknown"
    /\ preasons = <<"Not enough data">>

ShortSeries == Len(df_in) >= 1 /\ Len(df_in) < Lookback + 5

\* C6 (as stated): on a valid series of 1 to 24 bars predict_tomorrow does not
\* abort and its tomorrow_bias is NoSignal or NoStrongPrediction.
C6_ConservativeBias ==
    ShortSeries =>
        /\ apc # "raised"
        /\ Finished => tomorrow \in {"NoSignal", "NoStrongPrediction"}

\* C6 (amended): on a valid series of 1 to 24 bars predict_tomorrow does not
\* abort, the phase is Unknown, and the bias is the range branch's:
\* NoStrongPrediction, AvoidUnlessFakeBreak, OneDayUpBias or OneDayDownBias,
\* and NoStrongPrediction whenever the latest atr14 is unavailable or zero.
C6_RangeBranchBias ==
    ShortSeries =>
        /\ apc # "raised"
        /\ Finished =>
             /\ Val(ret).phase = "Unknown"
             /\ Val(ret).tomorrow_bias \in {"NoStrongPrediction", "AvoidUnlessFakeBreak",
                                            "OneDayUpBias", "OneDayDownBias"}
             /\ (Last(df_ind).atr14 = NA \/ Val(Last(df_ind).atr14) = 0)
                    => Val(ret).tomorrow_bias = "NoStrongPrediction"

\* A short series that gets a directional bias.
C6_Witness ==
    /\ ShortSeries
    /\ Finished
    /\ Val(ret).phase = "Unknown"
    /\ Val(ret).tomorrow_bias \in {"OneDayUpBias", "OneDayDownBias"}

StrictlyIncreasing(d) ==
    \A k \in 1..(Len(d) - 1) :
        /\ d[k].close < d[k + 1].close
        /\ d[k].high < d[k + 1].high
        /\ d[k].low < d[k + 1].low

RisingAboveEma20 ==
    /\ Len(df_in) >= Lookback + 5
    /\ StrictlyIncreasing(df_in)
    /\ Last(df_in).close > Val(ema).ema20

\* C7: at least 25 bars, closes, highs and lows strictly increasing, last close
\* above EMA20: the phase is Advancing.
C7_RisingIsAdvancing ==
    (Classified /\ RisingAboveEma20) => phase = "Advancing"

C7_Witness ==
    /\ Classified
    /\ RisingAboveEma20
    /\ phase = "Advancing"

\* C8: a call on the same series as the previous call returns what that call
\* returned, whatever series the calls before were given.
C8_SameSeriesSameResult ==
    /\ (Returned /\ prevFinal # NA) => Some(final) = prevFinal
    /\ (Finished /\ prevResult # NA) => ret = prevResult

\* The third call of predict_tomorrow, the second on the shortened series.
C8_Witness ==
    /\ Finished
    /\ Val(call).arg = MaxCalls
    /\ prevResult # NA
    /\ Len(df_in) \notin CallLengths
    /\ ret = prevResult

\* The 50SMA flag a strict comparison of the last close with sma50 gives.
Sma50Position(d) ==
    IF Last(d).sma50 = NA THEN "N/A"
    ELSE IF Sma50Window * Last(d).close > Val(Last(d).sma50) THEN "Above"
    ELSE IF Sma50Window * Last(d).close < Val(Last(d).sma50) THEN "Below"
    ELSE "At"

Flagged == apc \in {"bartype", "decide", "note", "done"}
Bootstrapped == pc \in {"walk", "cleanup", "final"}

\* C11: an unavailable indicator is never used as a number. With the latest
\* atr14 unavailable is_extended_from_ema9 is false, range_type is Unknown and
\* candle_type is not LongBar; the 50SMA flag is N/A iff the latest sma50 is
\* unavailable and else Above/Below/At by strict comparison; the pivot engine
\* leaves NEUTRAL only on a bar with both sma50 and sma200 available.
C11_UnavailableNeverNumeric ==
    /\ (Called("is_extended_from_ema9") /\ LastAtr = NA) => Val(ret) = FALSE
    /\ (Called("range_type") /\ LastAtr = NA) => Val(ret).typ = "Unknown"
    /\ (Called("candle_type") /\ Cur.atr14 = NA) => Val(ret) # "LongBar"
    /\ Flagged =>
         /\ flags["50SMA"] = Sma50Position(df_ind)
         /\ flags["50SMA"] = "N/A" <=> Last(df_ind).sma50 = NA
    /\ (apc \in {"decide", "note", "done"} /\ Last(df_ind).atr14 = NA)
           => flags["DailyBarType"] # "LongBar"
    /\ Bootstrapped =>
         \E k \in 0..(Len(bars) - 1) :
             /\ Row(bars, k).sma50 # NA
             /\ Row(bars, k).sma200 # NA
             /\ InitialTrend(bars, k) # "NEUTRAL"

\* The close is away from ema9 and atr14 is unavailable: not extended.
C11_Witness ==
    /\ Called("is_extended_from_ema9")
    /\ LastAtr = NA
    /\ Last(df_ind).close # Val(ema).ema9
    /\ Val(ret) = FALSE

\* The aggregator has decided.
Decided == apc \in {"note", "done"}
Trending == phase \in {"Advancing", "Declining"}
LastReason == reasons[Len(reasons)]

\* The 15 bars preceding the last bar, their highest high and lowest low.
PrecedingRows ==
    {k \in 1..(Len(df_ind) - 1) : k >= Len(df_ind) - RangeLookback}
PrecedingHigh ==
    CHOOSE h \in {df_ind[k].high : k \in PrecedingRows} :
        \A k \in PrecedingRows : df_ind[k].high <= h
PrecedingLow ==
    CHOOSE l \in {df_ind[k].low : k \in PrecedingRows} :
        \A k \in PrecedingRows : df_ind[k].low >= l
BrokeWithPhase ==
    \/ phase = "Advancing" /\ Last(df_ind).close > PrecedingHigh
    \/ phase = "Declining" /\ Last(df_ind).close < PrecedingLow
BrokeAgainstPhase ==
    \/ phase = "Advancing" /\ Last(df_ind).close < PrecedingLow
    \/ phase = "Declining" /\ Last(df_ind).close > PrecedingHigh
ExtendedAndHint ==
    IsExtendedFromEma9(df_ind, ema) /\ ReversalCandleHint(df_ind)

\* C12: in phase Advancing or Declining the bias is ContinuationLikely with the
\* range-break reason on a break in the phase's direction; otherwise
\* PauseOrReversalLikely iff extended from EMA9 and the reversal hint fires;
\* otherwise ContinuationLikely with the phase-intact reason.
C12_TrendBranch ==
    (Decided /\ Trending) =>
        /\ tomorrow \in {"ContinuationLikely", "PauseOrReversalLikely"}
        /\ BrokeWithPhase =>
             /\ tomorrow = "ContinuationLikely"
             /\ LastReason = (IF phase = "Advancing"
                              THEN "Recent range break up -> expect follow-through"
                              ELSE "Recent range break down -> expect follow-through selling")
        /\ (~BrokeWithPhase /\ ExtendedAndHint) =>
             /\ tomorrow = "PauseOrReversalLikely"
             /\ LastReason = "Extended from EMA9 + reversal hint -> pause/reversal likely"
        /\ (~BrokeWithPhase /\ ~ExtendedAndHint) =>
             /\ tomorrow = "ContinuationLikely"
             /\ LastReason = "Phase intact -> continuation bias"

\* No break, extended with a reversal hint: pause or reversal.
C12_Witness ==
    /\ Decided
    /\ phase = "Advancing"
    /\ ~BrokeWithPhase
    /\ ExtendedAndHint
    /\ tomorrow = "PauseOrReversalLikely"

\* The trailing 15 bars of the frame, their range and its type.
RangeRows == {k \in 1..Len(df_ind) : k > Len(df_ind) - RangeLookback}
RangeHigh ==
    CHOOSE h \in {df_ind[k].high : k \in RangeRows} :
        \A k \in RangeRows : df_ind[k].high <= h
RangeLow ==
    CHOOSE l \in {df_ind[k].low : k \in RangeRows} :
        \A k \in RangeRows : df_ind[k].low >= l
RangeWidth == RangeHigh - RangeLow
RangeKind ==
    IF Last(df_ind).atr14 = NA \/ Val(Last(df_ind).atr14) = 0 THEN "Unknown"
    ELSE IF 10 * AtrWindow * RangeWidth <= 12 * Val(Last(df_ind).atr14) THEN "Tight"
    ELSE "Wide"
NearHigh == 10 * (Last(df_ind).close - RangeLow) >= 8 * RangeWidth
NearLow == 10 * (Last(df_ind).close - RangeLow) <= 2 * RangeWidth

\* C13: in phase Range, ToppingRange, BottomingRange or Unknown the bias follows
\* the 15-bar range type: Tight gives AvoidUnlessFakeBreak, Unknown gives
\* NoStrongPrediction, Wide gives OneDayDownBias iff near the high with the
\* hint, else OneDayUpBias iff near the low with the hint, else
\* NoStrongPrediction.
C13_RangeBranch ==
    (Decided /\ ~Trending) =>
        /\ flags["RangeType"] = RangeKind
        /\ tomorrow \in {"AvoidUnlessFakeBreak", "NoStrongPrediction",
                         "OneDayDownBias", "OneDayUpBias"}
        /\ RangeKind = "Tight" => tomorrow = "AvoidUnlessFakeBreak"
        /\ RangeKind = "Unknown" => tomorrow = "NoStrongPrediction"
        /\ RangeKind = "Wide" =>
             tomorrow = (IF NearHigh /\ ReversalCandleHint(df_ind) THEN "OneDayDownBias"
                         ELSE IF NearLow /\ ReversalCandleHint(df_ind) THEN "OneDayUpBias"
                         ELSE "NoStrongPrediction")

\* A wide range of a classified series, the close near its high, the hint fires.
C13_Witness ==
    /\ Decided
    /\ phase \in {"Range", "ToppingRange", "BottomingRange"}
    /\ RangeKind = "Wide"
    /\ NearHigh
    /\ ReversalCandleHint(df_ind)
    /\ tomorrow = "OneDayDownBias"

FlagKeys == {"50SMA", "DailyBarType", "RangeType", "ExecutionNote"}
NotedBarTypes == {"InsideBar", "OutsideBar", "LongBar"}
NoteFor(bt) ==
    CASE bt = "InsideBar" -> "InsideBar -> quick partials, do not aim full ATR"
      [] bt = "OutsideBar" -> "OutsideBar -> higher continuation odds, ATR more likely"
      [] bt = "LongBar" -> "LongBar -> next day often pause/retrace, pinpoint or skip"

\* C14: the returned flags have keys among 50SMA, DailyBarType, RangeType and
\* ExecutionNote; 50SMA and DailyBarType always; RangeType iff the phase is
\* neither Advancing nor Declining; ExecutionNote iff DailyBarType is InsideBar,
\* OutsideBar or LongBar, with that type's fixed string.
C14_FlagKeys ==
    Finished =>
        LET fl == Val(ret).flags
            keys == DOMAIN fl
        IN  /\ keys \subseteq FlagKeys
            /\ "50SMA" \in keys
            /\ "DailyBarType" \in keys
            /\ "RangeType" \in keys <=> Val(ret).phase \notin {"Advancing", "Declining"}
            /\ "ExecutionNote" \in keys <=> fl["DailyBarType"] \in NotedBarTypes
            /\ "ExecutionNote" \in keys => fl["ExecutionNote"] = NoteFor(fl["DailyBarType"])

\* A trending result without RangeType whose last bar is a long bar.
C14_Witness ==
    /\ Finished
    /\ Val(ret).phase = "Advancing"
    /\ DOMAIN Val(ret).flags = {"50SMA", "DailyBarType", "ExecutionNote"}
    /\ Val(ret).flags["DailyBarType"] = "LongBar"

\* The last up-to-three bars of the series, their lowest low and highest high.
LastThree == {k \in 1..Len(bars) : k > Len(bars) - 3}
LowestOfLastThree ==
    CHOOSE l \in {bars[k].low : k \in LastThree} : \A k \in LastThree : bars[k].low >= l
HighestOfLastThree ==
    CHOOSE h \in {bars[k].high : k \in LastThree} : \A k \in LastThree : bars[k].high <= h
EndsOn(kind, price, before) ==
    /\ Len(final) >= 2
    /\ final[Len(final)].kind = kind
    /\ final[Len(final)].price = price
    /\ final[Len(final) - 1].kind = before

Window == {k \in 0..i : k >= i - 2}
WindowHigh ==
    CHOOSE h \in {Row(bars, k).high : k \in Window} : \A k \in Window : Row(bars, k).high <= h
WindowLow ==
    CHOOSE l \in {Row(bars, k).low : k \in Window} : \A k \in Window : Row(bars, k).low >= l

\* C16: in UP a low above last_HL raises last_HL to it, emits nothing and stays
\* in UP; a low <= last_HL records a pending HH at the window's highest high,
\* emits nothing and moves to UP_CONFIRM_TOPPING. DOWN mirrors this with highs,
\* last_LH, a pending LL at the window's lowest low and DOWN_CONFIRM_BOTTOMING.
C16_TrendStep ==
    [][ /\ (InWalk /\ state = "UP" /\ last_HL # NA) =>
             IF low > Val(last_HL)
             THEN /\ last_HL' = Some(low)
                  /\ state' = "UP"
                  /\ pivots' = pivots
                  /\ pending_HH' = pending_HH
             ELSE /\ pending_HH' # NA
                  /\ Val(pending_HH').kind = "HH"
                  /\ Val(pending_HH').price = WindowHigh
                  /\ Val(pending_HH').i \in Window
                  /\ Row(bars, Val(pending_HH').i).high = WindowHigh
                  /\ pivots' = pivots
                  /\ state' = "UP_CONFIRM_TOPPING"
        /\ (InWalk /\ state = "DOWN" /\ last_LH # NA) =>
             IF high < Val(last_LH)
             THEN /\ last_LH' = Some(high)
                  /\ state' = "DOWN"
                  /\ pivots' = pivots
                  /\ pending_LL' = pending_LL
             ELSE /\ pending_LL' # NA
                  /\ Val(pending_LL').kind = "LL"
                  /\ Val(pending_LL').price = WindowLow
                  /\ Val(pending_LL').i \in Window
                  /\ Row(bars, Val(pending_LL').i).low = WindowLow
                  /\ pivots' = pivots
                  /\ state' = "DOWN_CONFIRM_BOTTOMING"
      ]_vars

\* Bar 1 raised last_HL, bar 2 broke it, and the pending HH sits two bars back.
C16_Witness ==
    /\ pc = "walk"
    /\ state = "UP_CONFIRM_TOPPING"
    /\ break_index = Some(i - 1)
    /\ pending_HH # NA
    /\ Val(pending_HH).i = i - 3
    /\ last_HL = Some(Row(bars, 1).low)
    /\ Row(bars, 1).low > Row(bars, 0).low
    /\ pivots = <<>>

Appended == SubSeq(pivots', Len(pivots) + 1, Len(pivots'))

\* C17: in UP_CONFIRM_TOPPING a high not below the preceding bar's high appends
\* nothing and keeps the state; a strictly lower high appends the pending HH
\* and then an LL at the window's lowest low and moves to DOWN with last_LH the
\* confirming bar's high. DOWN_CONFIRM_BOTTOMING mirrors this with lows, LL then
\* HH, UP and last_HL. A waiting state is left only for the opposite trend.
C17_ConfirmStep ==
    [][ /\ (InWalk /\ state = "UP_CONFIRM_TOPPING") =>
             IF high < Row(bars, i - 1).high
             THEN /\ Len(pivots') = Len(pivots) + 2
                  /\ SubSeq(pivots', 1, Len(pivots)) = pivots
                  /\ Appended[1] = Val(pending_HH)
                  /\ Appended[1].kind = "HH"
                  /\ Appended[2].kind = "LL"
                  /\ Appended[2].price = WindowLow
                  /\ Appended[2].i \in Window
                  /\ state' = "DOWN"
                  /\ last_LH' = Some(high)
             ELSE /\ pivots' = pivots
                  /\ state' = state
        /\ (InWalk /\ state = "DOWN_CONFIRM_BOTTOMING") =>
             IF low > Row(bars, i - 1).low
             THEN /\ Len(pivots') = Len(pivots) + 2
                  /\ SubSeq(pivots', 1, Len(pivots)) = pivots
                  /\ Appended[1] = Val(pending_LL)
                  /\ Appended[1].kind = "LL"
                  /\ Appended[2].kind = "HH"
                  /\ Appended[2].price = WindowHigh
                  /\ Appended[2].i \in Window
                  /\ state' = "UP"
                  /\ last_HL' = Some(low)
             ELSE /\ pivots' = pivots
                  /\ state' = state
        /\ (pc = "walk" /\ state = "UP_CONFIRM_TOPPING")
               => state' \in {"UP_CONFIRM_TOPPING", "DOWN"}
        /\ (pc = "walk" /\ state = "DOWN_CONFIRM_BOTTOMING")
               => state' \in {"DOWN_CONFIRM_BOTTOMING", "UP"}
      ]_vars

\* After a wait on an equal or higher high, a lower high confirmed the top.
C17_Witness ==
    /\ pc = "walk"
    /\ state = "DOWN"
    /\ i >= 3
    /\ Row(bars, i - 1).high < Row(bars, i - 2).high
    /\ Row(bars, i - 2).high >= Row(bars, i - 3).high
    /\ last_LH = Some(Row(bars, i - 1).high)
    /\ Len(pivots) = 2
    /\ pivots[1].kind = "HH"
    /\ pivots[2].kind = "LL"

\* p is an HH (LL) at the earliest bar of the window holding its highest high
\* (lowest low).
EarliestHigh(p) ==
    /\ p.kind = "HH"
    /\ p.i \in Window
    /\ p.price = Row(bars, p.i).high
    /\ \A k \in Window : Row(bars, k).high <= p.price
    /\ \A k \in Window : Row(bars, k).high = p.price => k >= p.i
EarliestLow(p) ==
    /\ p.kind = "LL"
    /\ p.i \in Window
    /\ p.price = Row(bars, p.i).low
    /\ \A k \in Window : Row(bars, k).low >= p.price
    /\ \A k \in Window : Row(bars, k).low = p.price => k >= p.i

\* C18: a pivot recorded on bar i, pending at a break or appended at a
\* confirmation, has its index in [max(0, i-2), i], its price is that bar's high
\* (HH) or low (LL), and among tied bars of the window it is the earliest.
C18_WindowPivot ==
    [][ InWalk =>
          /\ (pending_HH' # NA /\ pending_HH' # pending_HH)
                 => EarliestHigh(Val(pending_HH'))
          /\ (pending_LL' # NA /\ pending_LL' # pending_LL)
                 => EarliestLow(Val(pending_LL'))
          /\ Len(pivots') > Len(pivots) =>
                 LET p == pivots'[Len(pivots')]
                 IN  IF state = "UP_CONFIRM_TOPPING" THEN EarliestLow(p) ELSE EarliestHigh(p)
      ]_vars

\* A pending HH on the first of two bars of the window that tie for the high.
C18_Witness ==
    /\ pc = "walk"
    /\ state = "UP_CONFIRM_TOPPING"
    /\ break_index = Some(i - 1)
    /\ pending_HH # NA
    /\ Val(pending_HH).i < i - 1
    /\ Row(bars, i - 1).high = Val(pending_HH).price

\* The maximal same-kind runs of the raw list, by their first positions.
RunStarts == {j \in 1..Len(pivots) : j = 1 \/ pivots[j - 1].kind # pivots[j].kind}
RunOf(j) == {k \in j..Len(pivots) : \A m \in j..k : pivots[m].kind = pivots[j].kind}
NthRun(n) == CHOOSE j \in RunStarts : Cardinality({m \in RunStarts : m <= j}) = n
MostExtreme(j) ==
    CHOOSE b \in RunOf(j) :
        /\ \A k \in RunOf(j) :
             IF pivots[j].kind = "HH" THEN pivots[k].price <= pivots[b].price
             ELSE pivots[k].price >= pivots[b].price
        /\ \A k \in RunOf(j) :
             pivots[k].price = pivots[b].price => k >= b
Walked == Returned /\ Len(bars) > 0

\* C19: the returned list has exactly one pivot per maximal same-kind run of the
\* raw list, in the runs' order: the run's highest HH or lowest LL, the first
\* of these on ties.
C19_RunsCollapsed ==
    Walked =>
        /\ Len(final) = Cardinality(RunStarts)
        /\ \A n \in 1..Len(final) : final[n] = pivots[MostExtreme(NthRun(n))]

\* A run of two pivots whose second is the more extreme one.
C19_Witness ==
    /\ Walked
    /\ \E j \in RunStarts :
         /\ Cardinality(RunOf(j)) >= 2
         /\ MostExtreme(j) > j

\* The current window (the last lookback bars) and the up-to-lookback bars
\* before it, as rows of the series.
CurrentFrom == Len(df_in) - Lookback + 1
PriorRows == {k \in 1..Len(df_in) : k < CurrentFrom /\ k >= CurrentFrom - Lookback}
PriorFrom == Max0(1, CurrentFrom - Lookback)
PriorSlope == SlopeSign(df_in, PriorFrom, CurrentFrom - 1)
WindowPairs == (CurrentFrom + 1)..Len(df_in)
RisingCount ==
    Cardinality({k \in WindowPairs : df_in[k].high > df_in[k - 1].high})
        + Cardinality({k \in WindowPairs : df_in[k].low > df_in[k - 1].low})
FallingCount ==
    Cardinality({k \in WindowPairs : df_in[k].high < df_in[k - 1].high})
        + Cardinality({k \in WindowPairs : df_in[k].low < df_in[k - 1].low})
AdvancingHolds ==
    /\ SlopeSign(df_in, CurrentFrom, Len(df_in)) > 0
    /\ RisingCount > FallingCount
    /\ Last(df_in).close > Val(ema).ema20
DecliningHolds ==
    /\ SlopeSign(df_in, CurrentFrom, Len(df_in)) < 0
    /\ FallingCount > RisingCount
    /\ Last(df_in).close < Val(ema).ema20
LongEnough == Classified /\ Len(df_in) >= Lookback + 5

\* C20: from lookback+5 bars on, when neither the Advancing nor the Declining
\* condition holds, the phase is ToppingRange if the prior window has at least
\* 10 bars and positive slope, BottomingRange if at least 10 bars and negative
\* slope, and Range otherwise (zero slope, or a series shorter than
\* lookback+10). The two conditions never hold together.
C20_PriorWindow ==
    LongEnough =>
        /\ ~(AdvancingHolds /\ DecliningHolds)
        /\ ~(phase = "Advancing" /\ DecliningHolds)
        /\ ~(phase = "Declining" /\ AdvancingHolds)
        /\ (~AdvancingHolds /\ ~DecliningHolds) =>
             /\ phase = (IF Cardinality(PriorRows) >= MinPrior /\ PriorSlope > 0
                         THEN "ToppingRange"
                         ELSE IF Cardinality(PriorRows) >= MinPrior /\ PriorSlope < 0
                         THEN "BottomingRange"
                         ELSE "Range")
             /\ Len(df_in) < Lookback + MinPrior => phase = "Range"

\* A stalled window after a rising prior window of the full length.
C20_Witness ==
    /\ LongEnough
    /\ ~AdvancingHolds /\ ~DecliningHolds
    /\ Cardinality(PriorRows) = Lookback
    /\ PriorSlope > 0
    /\ phase = "ToppingRange"


\* The reason strings of classify_phase_simple and of the two branches of
\* predict_tomorrow.
PhaseReasons ==
    {"Not enough data", "Close trend up and above EMA20",
     "Close trend down and below EMA20", "Stalling after uptrend -> topping/range",
     "Stalling after downtrend -> bottoming/range", "Choppy/range-like structure"}

AggregatorReasons ==
    {"Recent range break up -> expect follow-through",
     "Recent range break down -> expect follow-through selling",
     "Extended from EMA9 + reversal hint -> pause/reversal likely",
     "Phase intact -> continuation bias",
     "Tight range -> avoid unless fake breakout",
     "Wide range near high + confirmation hint -> 1-day down bias",
     "Wide range near low + confirmation hint -> 1-day up bias",
     "Range but no edge confirmation -> no strong prediction",
     "Range unclear -> no strong prediction"}

\* C21: the reasons of every returned PredictionResult are the reason list of
\* the phase classifier followed by the reason of the branch predict_tomorrow
\* took: exactly two entries, the classifier's single reason first and one
\* aggregator reason second.
C21_ReasonsPhaseThenAggregator ==
    Finished =>
      LET rs == Val(ret).reasons
          classified == ClassifyPhase(df_ind, ema, Lookback).reasons
      IN  /\ Len(classified) = 1
          /\ Len(rs) = 2
          /\ SubSeq(rs, 1, 1) = classified
          /\ rs[1] \in PhaseReasons
          /\ rs[2] \in AggregatorReasons

C21_Witness ==
    /\ Finished
    /\ Val(ret).reasons =
         <<"Close trend up and above EMA20",
           "Extended from EMA9 + reversal hint -> pause/reversal likely">>


Biases ==
    {"ContinuationLikely", "PauseOrReversalLikely", "OneDayUpBias", "OneDayDownBias",
     "AvoidUnlessFakeBreak", "NoStrongPrediction"}

\* C25: whenever predict_tomorrow returns, the returned tomorrow_bias is one
\* of ContinuationLikely, PauseOrReversalLikely, OneDayUpBias, OneDayDownBias,
\* AvoidUnlessFakeBreak and NoStrongPrediction, never the initial NoSignal.
C25_NeverNoSignal ==
    Finished =>
      /\ Val(ret).tomorrow_bias # "NoSignal"
      /\ Val(ret).tomorrow_bias \in Biases

\* The path whose only assignment is the last else of the range branch.
C25_Witness ==
    /\ Finished
    /\ Val(ret).flags["RangeType"] = "Unknown"
    /\ Val(ret).tomorrow_bias = "NoStrongPrediction"


HintRange == Cur.high - Cur.low
HintBody == Abs(Cur.close - Cur.open)
UpperWick == Cur.high - Max2(Cur.open, Cur.close)
LowerWick == Min2(Cur.open, Cur.close) - Cur.low

\* C23: reversal_candle_hint on the last bar returns false when high - low is
\* exactly zero; otherwise it returns true iff |close - open| <= 0.25 * (high -
\* low), or high - max(open, close) >= 0.45 * (high - low), or min(open,
\* close) - low >= 0.45 * (high - low), both thresholds inclusive.
C23_ReversalHint ==
    Called("reversal_candle_hint") =>
      /\ Arg = Len(df_ind) - 1
      /\ HintRange = 0 => Val(ret) = FALSE
      /\ HintRange # 0 =>
            (Val(ret) = TRUE <=>
               \/ 4 * HintBody <= HintRange
               \/ 20 * UpperWick >= 9 * HintRange
               \/ 20 * LowerWick >= 9 * HintRange)
      /\ Val(ret) \in BOOLEAN

\* An upper wick of exactly 0.45 of the range on a bar that is no doji and
\* has a short lower wick.
C23_Witness ==
    /\ Called("reversal_candle_hint")
    /\ HintRange > 0
    /\ 20 * UpperWick = 9 * HintRange
    /\ 4 * HintBody > HintRange
    /\ 20 * LowerWick < 9 * HintRange
    /\ Val(ret) = TRUE


\* C22: build_structure_pivots terminates in one forward pass: every loop
\* iteration, whatever the state and the bar (a bar that matches no branch
\* included), advances the bar index by exactly one and stays in the walk, the
\* index never moves backward, and every walk reaches the end of the series.
C22_OneForwardPass ==
    /\ [][(pc = "walk" /\ i < Len(bars)) =>
            (i' = i + 1 /\ pc' = "walk" /\ bars' = bars)]_vars
    /\ [][pc = "walk" => i' >= i]_vars
    /\ (pc = "walk") ~> (pc = "walk" /\ i = Len(bars))

\* The walk is at the end of a series whose last bar, missing its prices, was
\* met in state UP with last_HL set: it matched no branch.
C22_Witness ==
    /\ pc = "walk"
    /\ i = Len(bars)
    /\ Len(bars) >= 2
    /\ state = "UP"
    /\ notna(last_HL)
    /\ Val(last_HL) # NaN
    /\ Row(bars, Len(bars) - 1).low = NaN


\* The first bar with both moving averages, and the bar the bootstrap scan
\* stops on.
Available(k) == notna(Row(bars, k).sma50) /\ notna(Row(bars, k).sma200)
FirstAvailable ==
    CHOOSE k \in 0..(Len(bars) - 1) : Available(k) /\ \A j \in 0..(k - 1) : ~Available(j)
TrendAt(k) ==
    IF Row(bars, k).close >= Val(Row(bars, k).sma50)
       /\ Val(Row(bars, k).sma50) >= Val(Row(bars, k).sma200)
    THEN "UP"
    ELSE IF Row(bars, k).close <= Val(Row(bars, k).sma50)
            /\ Val(Row(bars, k).sma50) <= Val(Row(bars, k).sma200)
    THEN "DOWN"
    ELSE "NEUTRAL"
Trended(k) == Available(k) /\ TrendAt(k) # "NEUTRAL"
TrendBar ==
    CHOOSE k \in 0..(Len(bars) - 1) : Trended(k) /\ \A j \in 0..(k - 1) : ~Trended(j)

\* C26: once the bootstrap scan finds a trend at some bar k, the walk starts
\* at bar index 0 in the trend state of bar k, and bar 0 is processed first
\* whether or not its moving averages are available; so a returned pivot can
\* lie before the first bar that has both sma50 and sma200.
C26_WalkStartsAtBarZero ==
    /\ [][(pc = "entry" /\ pc' = "walk") =>
            /\ \E k \in 0..(Len(bars) - 1) : Trended(k)
            /\ state' = TrendAt(TrendBar)
            /\ i' = 0]_vars
    /\ [][(pc = "walk" /\ i = 0 /\ Len(bars) > 0) =>
            /\ i' = 1
            /\ state = "UP" => last_HL' = Some(Row(bars, 0).low)
            /\ state = "DOWN" => last_LH' = Some(Row(bars, 0).high)]_vars

C26_Witness ==
    /\ Returned
    /\ \E k \in 0..(Len(bars) - 1) : Available(k)
    /\ FirstAvailable > 0
    /\ \E n \in 1..Len(final) : final[n].i < FirstAvailable


PreviousBar == Row(bars, i - 1)

\* C27: whenever the walk is in state UP with last_HL set, last_HL is the low
\* of the bar just before the current one, and in DOWN last_LH is that bar's
\* high; so the walk leaves UP on a bar exactly when its low <= the previous
\* bar's low, and leaves DOWN exactly when its high >= the previous bar's
\* high, whatever the older lows and highs were.
C27_ReferenceIsPreviousBar ==
    /\ [](pc = "walk" =>
            /\ (state = "UP" /\ notna(last_HL)) =>
                  (i >= 1 /\ Val(last_HL) = PreviousBar.low)
            /\ (state = "DOWN" /\ notna(last_LH)) =>
                  (i >= 1 /\ Val(last_LH) = PreviousBar.high))
    /\ [][(InWalk /\ state = "UP" /\ notna(last_HL)) =>
            ((state' = "UP_CONFIRM_TOPPING" /\ break_index' = Some(i))
               <=> low <= PreviousBar.low)]_vars
    /\ [][(InWalk /\ state = "DOWN" /\ notna(last_LH)) =>
            ((state' = "DOWN_CONFIRM_BOTTOMING" /\ break_index' = Some(i))
               <=> high >= PreviousBar.high)]_vars

\* A break on a low that is above an older low of the same up-leg.
C27_Witness ==
    /\ pc = "walk"
    /\ state = "UP_CONFIRM_TOPPING"
    /\ pivots = <<>>
    /\ i >= 3
    /\ break_index = Some(i - 1)
    /\ Row(bars, i - 1).low <= Row(bars, i - 2).low
    /\ Row(bars, i - 1).low > Row(bars, i - 3).low


BreakBar == Val(break_index)
PendingAtBreak(kind) ==
    IF kind = "HH" THEN HHPivot(bars, WindowStart(BreakBar), BreakBar)
    ELSE LLPivot(bars, WindowStart(BreakBar), BreakBar)

\* C28: while the walk waits for confirmation, no waiting bar changes the
\* pending pivot: in UP_CONFIRM_TOPPING the pending HH, and in
\* DOWN_CONFIRM_BOTTOMING the pending LL, stays the pivot fixed at the break
\* bar, also when a waiting bar has a higher high (lower low); and that pivot
\* is the one appended on confirmation.
C28_PendingPivotFrozen ==
    /\ [](pc = "walk" =>
            /\ state = "UP_CONFIRM_TOPPING" =>
                  (notna(break_index) /\ pending_HH = Some(PendingAtBreak("HH")))
            /\ state = "DOWN_CONFIRM_BOTTOMING" =>
                  (notna(break_index) /\ pending_LL = Some(PendingAtBreak("LL"))))
    /\ [][(InWalk /\ state = "UP_CONFIRM_TOPPING") =>
            IF state' = "UP_CONFIRM_TOPPING"
            THEN pending_HH' = pending_HH /\ pivots' = pivots
            ELSE /\ state' = "DOWN"
                 /\ Len(pivots') = Len(pivots) + 2
                 /\ pivots'[Len(pivots) + 1] = Val(pending_HH)]_vars
    /\ [][(InWalk /\ state = "DOWN_CONFIRM_BOTTOMING") =>
            IF state' = "DOWN_CONFIRM_BOTTOMING"
            THEN pending_LL' = pending_LL /\ pivots' = pivots
            ELSE /\ state' = "UP"
                 /\ Len(pivots') = Len(pivots) + 2
                 /\ pivots'[Len(pivots) + 1] = Val(pending_LL)]_vars

\* An HH was just emitted although a bar of the wait had a higher high.
C28_Witness ==
    /\ pc = "walk"
    /\ state = "DOWN"
    /\ Len(pivots) = 2
    /\ pivots[1].kind = "HH"
    /\ \E k \in (pivots[1].i + 1)..(i - 2) : Row(bars, k).high > pivots[1].price


Alternates(ps) == \A n \in 1..(Len(ps) - 1) : ps[n].kind # ps[n + 1].kind

\* The final loop takes its replacement branch on some pivot of cs.
Replaces(cs) ==
    \E n \in 2..Len(cs) :
      LET acc == FinalFrom(SubSeq(cs, 1, n - 1), 1, <<>>)
          last == acc[Len(acc)]
      IN  /\ last.kind = cs[n].kind
          /\ \/ cs[n].kind = "HH" /\ cs[n].price > last.price
             \/ cs[n].kind = "LL" /\ cs[n].price < last.price

\* C29: the final alternation pass changes nothing: for every raw pivot list
\* the list left by the same-kind collapse alternates strictly, the final loop
\* never takes its replacement branch, and the returned list equals the
\* collapsed list.
C29_FinalPassChangesNothing ==
    /\ pc \in {"final", "done"} =>
          /\ cleaned = CleanUp(pivots)
          /\ Alternates(cleaned)
          /\ ~Replaces(cleaned)
    /\ pc = "done" => final = cleaned

\* A list with same-kind neighbours was collapsed and returned.
C29_Witness ==
    /\ pc = "done"
    /\ ~Alternates(pivots)
    /\ Len(cleaned) >= 2
    /\ Len(cleaned) < Len(pivots)
    /\ final = cleaned


\* start() returns normally in this step.
StartReturns == start_pc # "returned" /\ start_pc' = "returned"

\* C24: start() waits for ready or fails fast: whenever a start() call returns
\* normally, the worker thread is alive and connected (a following _require
\* would pass); otherwise the call raises RuntimeError.
C24_StartReturnsConnected ==
    [][StartReturns => (_thread' = "alive" /\ Require')]_vars

=============================================================================
